---- MODULE Spec2Model ----
(***************************************************************************)
(* Conversion & publish pipeline of the DuckIt uploader.                    *)
(*                                                                         *)
(* Spec: the publish orchestrator of pages/Home.tsx (Build Database push,  *)
(* Quick Upload, Convert-then-publish upload) together with the auth       *)
(* context that feeds it (user, isAllowed), the role loader, the admission *)
(* helpers of lib/neon-db (validateUpload, getEffectiveLimits, ...), the   *)
(* status probe and the transfer client of lib/pushToRemote.               *)
(*                                                                         *)
(* A handler invocation is a closure: the values of isAllowed, user,       *)
(* userRole, userStorageTier and the checkboxes that it reads are those of *)
(* the render in which it was created, so they are captured when the       *)
(* handler starts and every later step of the same invocation uses the     *)
(* captured values.  Each await of a handler is one step.                  *)
(*                                                                         *)
(* Interleaving: the steps of an invocation read nothing but the captured  *)
(* values and the answers of the services, so an auth, checkbox or staging *)
(* event that falls between two of its steps commutes with them.  The      *)
(* model orders such events before the invocation starts or after its      *)
(* result has been closed (Quiet).                                         *)
(*                                                                         *)
(* Nine smaller specifications follow parts of the program on their own,   *)
(* each over a variable that Spec leaves alone:                            *)
(*   SpecClient  xfer    one call of a public upload function, step by     *)
(*                       step (lib/pushToRemote.ts)                        *)
(*   SpecGuard   busy    the in-flight flags of the page (pages/Home.tsx)  *)
(*   SpecDelim   sample  the delimiter choice of importCSV (lib/duckdb.ts) *)
(*   SpecEngine  engine  the catalog of the engine through importCSV and   *)
(*                       the export functions (lib/duckdb.ts)              *)
(*   SpecBundle  bundle  one bundle export, table by table                 *)
(*                       (lib/pushToRemote.ts, lib/duckdb.ts)              *)
(*   SpecScratch scratch the catalog and the virtual files through         *)
(*                       convertCsvToParquet and estimateDatabaseSize      *)
(*   SpecFiles   records the file records behind the database proxy        *)
(*                       (files.add, files.delete, files.list)             *)
(*   SpecAccessor acc    overlapping calls of initDuckDB, getConnection    *)
(*                       and resetDuckDB (lib/duckdb.ts)                   *)
(*   SpecProxy   proxy   one request to api/upload-token or api/status     *)
(***************************************************************************)
EXTENDS Integers, FiniteSets, Sequences, TLC

VARIABLES
  user,                \* AuthProvider: signed-in identity or NoUser
  isAllowed,           \* AuthProvider: result of the last access check
  accessChecks,        \* checkAccess(email) calls in flight
  userRole,            \* Home: 'pro' | 'admin'
  userStorageTier,     \* Home: 'temp' | 'persistent' | 'permanent'
  isRoleLoading,       \* Home: role lookup in progress
  roleLookups,         \* getUserRole(email) calls in flight
  keepPersistent,      \* Home: checkbox of Build Database / CSV->Parquet
  keepPersistentQuick, \* Home: checkbox of Quick Upload
  tables,              \* Home: columnar size (MB) of the ingested tables, 0 = none
  quickStagedFile,     \* Home: file staged for Quick Upload or NoFile
  parquetResult,       \* Home: converted buffer or NoFile
  att,                 \* the publish handler invocation in progress or last finished
  xfer,                \* lib/pushToRemote: one call of a public upload function
  busy,                \* Home: isPushing, isQuickUploading, isConvertingParquet and
                       \* the handler invocations that have not returned
  sample,              \* lib/duckdb detectDelimiter: the sampled first line and the answer
  engine,              \* lib/duckdb: the tables of the embedded engine, the last call
  bundle,              \* the ZIP bundle a bundle exporter is building or has built
  scratch,             \* lib/duckdb: catalog and virtual files during conversion,
                       \* size estimation and bundle export
  records,             \* metadata store: the File Records and the last files.* call
  acc,                 \* lib/duckdb: the module variables db and conn and their callers
  proxy                \* api/: the last request a proxy function has answered

vars == <<user, isAllowed, accessChecks, userRole, userStorageTier, isRoleLoading,
          roleLookups, keepPersistent, keepPersistentQuick, tables,
          quickStagedFile, parquetResult, att, xfer, busy, sample, engine,
          bundle, scratch, records, acc, proxy>>

authVars == <<user, isAllowed, accessChecks>>
roleVars == <<userRole, userStorageTier, isRoleLoading, roleLookups>>
boxVars == <<keepPersistent, keepPersistentQuick>>
stageVars == <<tables, quickStagedFile, parquetResult>>
homeVars == <<authVars, roleVars, boxVars, stageVars, att>>
firstLib == <<xfer, busy, sample, engine>>
restLib == <<bundle, scratch, records, acc, proxy>>
libVars == <<firstLib, restLib>>

----------------------------------------------------------------------------
(* Bounds of the model *)

\* number of calls of one kind (access check, role lookup) in flight at once
MaxPending == 1
\* largest record count the metadata store answers for one identity
MaxCount == 2
\* upload tokens the server issues (calls of the upload functions that get one)
MaxTokens == 2
\* tables in the engine when pushToRemote exports
MaxTables == 2
\* invocations of one publish handler that are followed at the same time
MaxRunning == 2
\* callers of initDuckDB / getConnection that are followed at the same time
MaxCallers == 2
\* engine instances and connections created between two resets
MaxInstances == 2
\* characters of the sample that the delimiter inference reads
MaxLineLen == 4
\* byte length of the artifacts sent by the transfer client; the transport
\* reports sent-byte counts 0..TotalBytes
TotalBytes == 2

----------------------------------------------------------------------------
(* Data *)

NoUser == "nouser"
NoFile == [kind |-> "none", sizeMb |-> 0]
\* JavaScript null in a limits record
JsNull == 0 - 1

\* a limits record without keys
NoLimits == [k \in {} |-> JsNull]

\* identities known to the metadata store (table app_users)
Identities == {"pro", "adm", "blk"}
DbRole == [e \in Identities |-> IF e = "adm" THEN "admin" ELSE "pro"]
DbStatus == [e \in Identities |-> IF e = "blk" THEN "blocked" ELSE "allowed"]
\* per-identity limits column (a key that is missing is not overridden)
DbUserLimits == [e \in Identities |->
                   IF e = "pro" THEN [max_files |-> 2]
                   ELSE IF e = "blk" THEN [max_files |-> 0]
                   ELSE NoLimits]
\* role defaults (table app_defaults)
DbDefaults == [r \in {"pro", "admin"} |->
                 IF r = "pro" THEN [max_files |-> 1, max_file_size_mb |-> 50]
                 ELSE [max_files |-> JsNull, max_file_size_mb |-> JsNull]]

\* sizes (MB) of the artifacts the caller supplies
TableSizes == {13, 38}
ParquetSizes == {13, 60, 76}
QuickFiles == {[kind |-> "parquet", sizeMb |-> 76],
               [kind |-> "duckdb", sizeMb |-> 13],
               [kind |-> "duckdb", sizeMb |-> 151]}
\* answers of the status service; Missing marks a field the body lacks
Missing == 0 - 2
StatusAvailable == {Missing, 20, 400}
StatusCanUpload == {"missing", "true", "false"}

Tiers == {"temp", "persistent", "permanent"}
Denials == {"too_large", "file_limit", "storage_full"}

\* fixed ceilings and the inflation multiplier of the pre-upload checks
MAX_UPLOAD_SIZE_MB == 150
ParquetCeilingMb == 75
BuildCeilingMb == 75
InflationFactor == 2
\* value the file-limit modal shows when the computed maximum is falsy
FallbackMaxFiles == 2

NoValidation == [allowed |-> TRUE, reason |-> "unset", userFileCount |-> 0, maxFiles |-> JsNull]
NoStatusReply == [available_mb |-> Missing, can_upload |-> "unset"]
NoFileLimitInfo == [userFileCount |-> JsNull, maxFiles |-> JsNull]
NoStorageInfo == [maxMb |-> JsNull, fileSizeMb |-> JsNull]

\* no handler invocation.  limOk, cntOk, count, validation and statusReply
\* describe the check the invocation made last (they are locals of that step)
Idle == [wf |-> "none", pc |-> "idle", tier |-> "temp", role |-> "pro",
         allowed |-> FALSE, keep |-> FALSE, email |-> NoUser, loading |-> FALSE,
         kind |-> "none", sizeMb |-> 0, checks |-> {},
         limOk |-> FALSE, cntOk |-> FALSE, count |-> 0, validation |-> NoValidation,
         statusReply |-> NoStatusReply,
         fileLimitInfo |-> NoFileLimitInfo, storageInfo |-> NoStorageInfo,
         exported |-> FALSE, tokenReq |-> "none", transfers |-> 0,
         recordCalls |-> 0, recordSaved |-> "none", deleteCalls |-> 0,
         outcome |-> "none"]

----------------------------------------------------------------------------
(* Pure helpers *)

\* lib/neon-db getStorageTier
getStorageTier(role) == IF role = "admin" THEN "permanent" ELSE "persistent"

\* variant: the requested tier is sent as it is
RequestedTier(allowed, tier, checkboxChecked) == tier

\* Home.getEffectiveStorageTier, on the values of one render
getEffectiveStorageTier(allowed, tier, checkboxChecked) ==
  IF ~allowed \/ ~checkboxChecked THEN "temp" ELSE tier

\* getUserRole: the role column, anything but 'admin' (or a failed call) is 'pro'
getUserRole(e, ok) == IF ok /\ DbRole[e] = "admin" THEN "admin" ELSE "pro"

\* JavaScript object spread {...d, ...u}
Spread(d, u) ==
  [k \in (DOMAIN d) \cup (DOMAIN u) |-> IF k \in DOMAIN u THEN u[k] ELSE d[k]]

\* api/db user.limits: role defaults overridden by the identity's limits
userLimits(e) == Spread(DbDefaults[DbRole[e]], DbUserLimits[e])

\* api/db user.check: allowed unless the record is blocked
userCheck(e) == [allowed |-> DbStatus[e] # "blocked", role |-> DbRole[e],
                 limits |-> userLimits(e)]

\* checkUserAccess: the answer of user.check, or allowed when the call fails
checkUserAccess(e, ok) == IF ok THEN userCheck(e).allowed ELSE TRUE

\* getEffectiveLimits: result.limits || {}, and {} when the call fails
getEffectiveLimits(e, ok) == IF ok THEN userLimits(e) ELSE NoLimits

\* getUserFileCount: result.count || 0, and 0 when the call fails
getUserFileCount(count, ok) == IF ok THEN count ELSE 0

\* limits.key ?? null
Limit(limits, key) == IF key \in DOMAIN limits THEN limits[key] ELSE JsNull

\* variant: the file-count rule denies only above the maximum
validateUploadAbove(userFileCount, fileSizeMb, limits) ==
  LET maxFiles == Limit(limits, "max_files")
      maxFileSizeMb == Limit(limits, "max_file_size_mb")
  IN IF maxFiles # JsNull /\ userFileCount > maxFiles
       THEN [allowed |-> FALSE, reason |-> "FILE_COUNT_LIMIT",
             userFileCount |-> userFileCount, maxFiles |-> maxFiles]
     ELSE IF maxFileSizeMb # JsNull /\ fileSizeMb > maxFileSizeMb
       THEN [allowed |-> FALSE, reason |-> "FILE_SIZE_LIMIT",
             userFileCount |-> userFileCount, maxFiles |-> maxFiles]
     ELSE [allowed |-> TRUE, reason |-> "none",
           userFileCount |-> userFileCount, maxFiles |-> maxFiles]

\* lib/neon-db validateUpload
validateUpload(userFileCount, fileSizeMb, limits) ==
  LET maxFiles == Limit(limits, "max_files")
      maxFileSizeMb == Limit(limits, "max_file_size_mb")
  IN IF maxFiles # JsNull /\ userFileCount >= maxFiles
       THEN [allowed |-> FALSE, reason |-> "FILE_COUNT_LIMIT",
             userFileCount |-> userFileCount, maxFiles |-> maxFiles]
     ELSE IF maxFileSizeMb # JsNull /\ fileSizeMb > maxFileSizeMb
       THEN [allowed |-> FALSE, reason |-> "FILE_SIZE_LIMIT",
             userFileCount |-> userFileCount, maxFiles |-> maxFiles]
     ELSE [allowed |-> TRUE, reason |-> "none",
           userFileCount |-> userFileCount, maxFiles |-> maxFiles]

\* x || fallback on a number or null
OrElse(x, fallback) == IF x = JsNull \/ x = 0 THEN fallback ELSE x

\* the detail the handlers put in fileLimitInfo
FileLimitInfoOf(validation) ==
  [userFileCount |-> OrElse(validation.userFileCount, 0),
   maxFiles |-> OrElse(validation.maxFiles, FallbackMaxFiles)]

\* getStorageStatus: normalisation of the body of /api/status
getStorageStatus(reply) ==
  [available_mb |-> IF reply.available_mb = Missing THEN 0 ELSE reply.available_mb,
   can_upload |-> reply.can_upload # "false"]

\* variant: no inflation
RawFileSizeMb(kind, sizeMb) == sizeMb

\* estimated final size: a columnar file is doubled, a database file is not
EstimatedFileSizeMb(kind, sizeMb) ==
  IF kind = "parquet" THEN sizeMb * InflationFactor ELSE sizeMb

\* the capacity test of the three handlers
StorageFull(estimatedMb, st) == estimatedMb > st.available_mb \/ ~st.can_upload

\* variant: no role skips the validations
NoBypass(role) == FALSE

\* the handlers skip every validation for the admin role
SkipsValidation(role) == role = "admin"

\* the guard of the quota checks
QuotaChecksApply(a) ==
  a.keep /\ a.allowed /\ a.email # NoUser /\ a.tier # "temp"

\* the guard of the File Record save (on a result with url and filename)
SavesRecord(a) == a.keep /\ a.allowed /\ a.email # NoUser

----------------------------------------------------------------------------
(* State of the library calls that are followed on their own *)

\* a file name is a stem and an extension (file.name.split('.').pop())
NoName == [stem |-> "none", ext |-> "none"]
\* arguments of a token request not made
NoArgs == [filename |-> NoName, content_length |-> 0, storage_tier |-> "none"]
\* no progress value delivered yet
NoPercent == 0 - 1

\* no call of a public upload function yet.  issued counts the tokens the
\* server has handed out; everything else belongs to one call.
NoCall == [fn |-> "none", pc |-> "idle", filename |-> NoName, bytes |-> 0,
           tier |-> "none", nTables |-> 0, exportedTables |-> 0,
           tokenReqs |-> 0, tokenArgs |-> NoArgs, token |-> 0, issued |-> 0,
           sends |-> 0, sentToken |-> 0, sentName |-> NoName, sentBytes |-> 0,
           loaded |-> 0, percent |-> NoPercent, monotone |-> TRUE,
           abortRequested |-> FALSE,
           result |-> "none", downloadUrl |-> FALSE, error |-> "none"]
\* no handler invocation running
NotBusy == [isPushing |-> FALSE, isQuickUploading |-> FALSE,
            isConvertingParquet |-> FALSE,
            tables |-> FALSE, quickStagedFile |-> FALSE, localBuffer |-> FALSE,
            pushUrl |-> FALSE, quickUrl |-> FALSE, parquetUrl |-> FALSE,
            pushRunning |-> 0, quickRunning |-> 0, parquetRunning |-> 0]
\* no first line sampled
NoSample == [text |-> <<>>, ext |-> "none", delimiter |-> "none"]
\* the engine right after initDuckDB
\* a table name that the catalog does not hold
NoTable == [rows |-> 0 - 1, cols |-> {}]
\* the table names of the model, as the characters of file.name before the
\* extension with everything outside [a-zA-Z0-9_] replaced by "_"
TableNames == {<<"t", "_">>, <<"u">>}
\* no engine call yet
NoOp == [op |-> "none", table |-> <<>>, content |-> NoTable,
         before |-> [n \in TableNames |-> NoTable],
         again |-> FALSE, result |-> "none"]
\* no bundle export yet
NoBundle == [exporter |-> "none", pc |-> "idle", tables |-> <<>>, i |-> 0,
             members |-> {}, manifest |-> <<>>, schema |-> <<>>,
             chunked |-> FALSE]
\* nothing converted, estimated or exported yet
NoJob == [kind |-> "none", pc |-> "idle", tables |-> <<>>, i |-> 0,
          totalSize |-> 0, result |-> "none",
          prevTables |-> <<>>, prevSize |-> 0 - 1]
NoScratch == [catalog |-> {}, files |-> {}, conv |-> "idle",
              convResult |-> "none", job |-> NoJob]
\* an empty metadata store
FileIds == {1, 2}
\* a row that the files table does not hold
NoRecord == [user_email |-> "none", server_filename |-> FALSE,
             is_deleted |-> "null", deleted_at |-> "null"]
NoFilesCall == [op |-> "none", email |-> "none", id |-> 0, purge |-> "none",
                storeOk |-> TRUE, before |-> [i \in FileIds |-> NoRecord],
                status |-> 0]
NoRecords == [files |-> [i \in FileIds |-> NoRecord], last |-> NoFilesCall]
\* the module before the first initDuckDB
NoCaller == [fn |-> "none", pc |-> "idle", mine |-> 0, got |-> 0,
             gotReady |-> FALSE]
NoAccessor == [db |-> 0, conn |-> 0, created |-> 0, connected |-> 0,
               ready |-> {}, callers |-> [c \in 1..MaxCallers |-> NoCaller]]
\* no proxy request yet
NoRequest == [fn |-> "none", method |-> "none", keyed |-> FALSE,
              filename |-> "missing", tier |-> "missing", base |-> <<>>,
              backendCalls |-> 0, backendMethod |-> "none",
              forwarded |-> "none", backend |-> "none",
              status |-> 0, full_upload_url |-> <<>>]

\* the engine right after initDuckDB: an empty catalog
EmptyEngine == [db |-> [n \in TableNames |-> NoTable], last |-> NoOp]

----------------------------------------------------------------------------
(* Auth context and role loader *)

Init ==
  /\ user = NoUser
  /\ isAllowed = FALSE
  /\ accessChecks = {}
  /\ userRole = "pro"
  /\ userStorageTier = "temp"
  /\ isRoleLoading = FALSE
  /\ roleLookups = {}
  /\ keepPersistent = FALSE
  /\ keepPersistentQuick = FALSE
  /\ tables = 0
  /\ quickStagedFile = NoFile
  /\ parquetResult = NoFile
  /\ att = Idle
  /\ xfer = NoCall
  /\ busy = NotBusy
  /\ sample = NoSample
  /\ engine = EmptyEngine
  /\ bundle = NoBundle
  /\ scratch = NoScratch
  /\ records = NoRecords
  /\ acc = NoAccessor
  /\ proxy = NoRequest

\* no handler invocation is running and no result is shown
Quiet == att.pc = "idle"

\* Home's effect on [user?.email, isAllowed]: loadUserRole up to its first await.
\* u, a are the values of the new render.
loadUserRole(u, a) ==
  IF u = user /\ a = isAllowed
    THEN UNCHANGED roleVars
  ELSE IF u # NoUser /\ a
    THEN /\ isRoleLoading' = TRUE
         /\ roleLookups' = roleLookups \cup {u}
         /\ Cardinality(roleLookups') <= MaxPending
         /\ UNCHANGED <<userRole, userStorageTier>>
  ELSE /\ userRole' = "pro"
       /\ userStorageTier' = "temp"
       /\ isRoleLoading' = FALSE
       /\ UNCHANGED roleLookups

\* loadUserRole after getUserRole(email) has answered
RoleLookupDone(e, ok) ==
  /\ Quiet
  /\ e \in roleLookups
  /\ roleLookups' = roleLookups \ {e}
  /\ userRole' = getUserRole(e, ok)
  /\ userStorageTier' = getStorageTier(getUserRole(e, ok))
  /\ isRoleLoading' = FALSE
  /\ UNCHANGED <<authVars, boxVars, stageVars, att, libVars>>

\* AuthProvider.refreshSession up to the await of checkAccess; e is the session
\* the auth service answers (the identity changes only through a sign-out)
refreshSession(e) ==
  /\ Quiet
  /\ e = NoUser \/ user = NoUser \/ e = user
  /\ IF e # NoUser
       THEN /\ user' = e
            /\ accessChecks' = accessChecks \cup {e}
            /\ Cardinality(accessChecks') <= MaxPending
            /\ UNCHANGED isAllowed
       ELSE /\ user' = NoUser
            /\ isAllowed' = FALSE
            /\ UNCHANGED accessChecks
  /\ loadUserRole(user', isAllowed')
  /\ UNCHANGED <<boxVars, stageVars, att, libVars>>

\* AuthProvider.checkAccess after checkUserAccess(email) has answered
checkAccess(e, ok) ==
  /\ Quiet
  /\ e \in accessChecks
  /\ accessChecks' = accessChecks \ {e}
  /\ isAllowed' = checkUserAccess(e, ok)
  /\ UNCHANGED user
  /\ loadUserRole(user', isAllowed')
  /\ UNCHANGED <<boxVars, stageVars, att, libVars>>

\* AuthProvider.signOut (both of its paths clear the state)
signOut ==
  /\ Quiet
  /\ user # NoUser
  /\ user' = NoUser
  /\ isAllowed' = FALSE
  /\ UNCHANGED accessChecks
  /\ loadUserRole(user', isAllowed')
  /\ UNCHANGED <<boxVars, stageVars, att, libVars>>

\* the two checkboxes, disabled while the caller is not allowed
setKeepPersistent ==
  /\ Quiet
  /\ isAllowed
  /\ keepPersistent' = ~keepPersistent
  /\ UNCHANGED <<authVars, roleVars, keepPersistentQuick, stageVars, att, libVars>>

setKeepPersistentQuick ==
  /\ Quiet
  /\ isAllowed
  /\ keepPersistentQuick' = ~keepPersistentQuick
  /\ UNCHANGED <<authVars, roleVars, keepPersistent, stageVars, att, libVars>>

----------------------------------------------------------------------------
(* Staging: ingestion, conversion, Quick Upload file selection *)

\* handleBuildDrop / handleBuildFileInput: import, then refreshTables
handleBuildDrop(sizeMb) ==
  /\ Quiet
  /\ IF isRoleLoading THEN UNCHANGED tables ELSE tables' = sizeMb
  /\ UNCHANGED <<authVars, roleVars, boxVars, quickStagedFile, parquetResult, att, libVars>>

\* handleParquetDrop / handleParquetFileInput: convert, keep the buffer
handleParquetDrop(sizeMb) ==
  /\ Quiet
  /\ IF isRoleLoading
       THEN UNCHANGED parquetResult
       ELSE parquetResult' = [kind |-> "parquet", sizeMb |-> sizeMb]
  /\ UNCHANGED <<authVars, roleVars, boxVars, tables, quickStagedFile, att, libVars>>

\* size ceiling of handleQuickDrop: 75 MB for Parquet, 150 MB for DuckDB
QuickDropCeiling(file) ==
  IF file.kind = "parquet" THEN ParquetCeilingMb ELSE MAX_UPLOAD_SIZE_MB

\* size ceiling of handleQuickFileInput
QuickFileInputCeiling(file) == MAX_UPLOAD_SIZE_MB

handleQuickDrop(file) ==
  /\ Quiet
  /\ IF isRoleLoading
       THEN UNCHANGED quickStagedFile
     ELSE IF ~SkipsValidation(userRole) /\ file.sizeMb > QuickDropCeiling(file)
       THEN UNCHANGED quickStagedFile
     ELSE quickStagedFile' = file
  /\ UNCHANGED <<authVars, roleVars, boxVars, tables, parquetResult, att, libVars>>

handleQuickFileInput(file) ==
  /\ Quiet
  /\ IF isRoleLoading
       THEN UNCHANGED quickStagedFile
     ELSE IF ~SkipsValidation(userRole) /\ file.sizeMb > QuickFileInputCeiling(file)
       THEN UNCHANGED quickStagedFile
     ELSE quickStagedFile' = file
  /\ UNCHANGED <<authVars, roleVars, boxVars, tables, parquetResult, att, libVars>>

handleQuickClearStaged ==
  /\ Quiet
  /\ quickStagedFile' = NoFile
  /\ UNCHANGED <<authVars, roleVars, boxVars, tables, parquetResult, att, libVars>>

----------------------------------------------------------------------------
(* Publish handlers *)

Finished == att.pc \in {"idle", "done"}

\* what a handler invocation captures from the render it was created in
Start(wf, checkboxChecked, kind, sizeMb) ==
  [Idle EXCEPT !.wf = wf,
               !.tier = getEffectiveStorageTier(isAllowed, userStorageTier, checkboxChecked),
               !.role = userRole, !.allowed = isAllowed, !.keep = checkboxChecked,
               !.email = user, !.loading = isRoleLoading,
               !.kind = kind, !.sizeMb = sizeMb]

\* first step of the transfer client (pushToRemote exports the bundle first)
ClientEntry(wf) == IF wf = "build" THEN "export" ELSE "token"

\* variant: the reason is shown and the handler goes on to the transfer client
DenyAndProceed(a, reason) == [a EXCEPT !.pc = ClientEntry(a.wf), !.outcome = reason]

\* a denial: the handler shows the reason and returns
Deny(a, reason) == [a EXCEPT !.pc = "done", !.outcome = reason]

\* first step after the ceiling check: quota checks or the transfer client
AfterCeiling(a) ==
  IF QuotaChecksApply(a) THEN "validate" ELSE ClientEntry(a.wf)

\* handlePushToRemote up to its first await
handlePushToRemote ==
  /\ Finished
  /\ tables > 0
  /\ att' = [Start("build", keepPersistent, "parquet", 0) EXCEPT
               !.pc = IF SkipsValidation(userRole) THEN ClientEntry("build") ELSE "estimate"]
  /\ UNCHANGED <<authVars, roleVars, boxVars, stageVars, libVars>>

\* handlePushToRemote STEP 1 and STEP 2: estimateDatabaseSize, fixed ceiling
PushEstimate ==
  /\ att.wf = "build" /\ att.pc = "estimate"
  /\ LET a == [att EXCEPT !.sizeMb = tables, !.checks = @ \cup {"size"}]
     IN att' = IF EstimatedFileSizeMb("parquet", tables) > BuildCeilingMb
                 THEN Deny(a, "too_large")
                 ELSE [a EXCEPT !.pc = AfterCeiling(a)]
  /\ UNCHANGED <<authVars, roleVars, boxVars, stageVars, libVars>>

\* handleQuickUpload up to its first await
handleQuickUpload ==
  /\ Finished
  /\ quickStagedFile # NoFile
  /\ LET a == Start("quick", keepPersistentQuick, quickStagedFile.kind, quickStagedFile.sizeMb)
     IN att' = [a EXCEPT !.pc = IF SkipsValidation(userRole) THEN ClientEntry("quick")
                                 ELSE AfterCeiling(a)]
  /\ UNCHANGED <<authVars, roleVars, boxVars, stageVars, libVars>>

\* handleParquetUploadToServer up to its first await
handleParquetUploadToServer ==
  /\ Finished
  /\ parquetResult # NoFile
  /\ LET a == Start("parquet", keepPersistent, "parquet", parquetResult.sizeMb)
         b == [a EXCEPT !.checks = {"size"}]
     IN att' = IF SkipsValidation(userRole)
                 THEN [a EXCEPT !.pc = ClientEntry("parquet")]
               ELSE IF a.sizeMb > ParquetCeilingMb
                 THEN Deny(b, "too_large")
               ELSE [b EXCEPT !.pc = AfterCeiling(b)]
  /\ UNCHANGED <<authVars, roleVars, boxVars, stageVars, libVars>>

\* file size handed to validateUpload (Build Database passes 0)
ValidatedSizeMb(a) == IF a.wf = "build" THEN 0 ELSE a.sizeMb

\* getEffectiveLimits, validateUpload (with getUserFileCount) and the branch on
\* validation.allowed; count is the store's number of non-deleted records
Validate(limOk, cntOk, count) ==
  /\ att.pc = "validate"
  /\ cntOk \/ count = 0
  /\ LET v == validateUpload(getUserFileCount(count, cntOk), ValidatedSizeMb(att),
                             getEffectiveLimits(att.email, limOk))
         a == [att EXCEPT !.checks = @ \cup {"count"}, !.limOk = limOk,
                          !.cntOk = cntOk, !.count = count, !.validation = v]
     IN att' = IF ~v.allowed
                 THEN Deny([a EXCEPT !.fileLimitInfo = FileLimitInfoOf(v)], "file_limit")
                 ELSE [a EXCEPT !.pc = "status"]
  /\ UNCHANGED <<authVars, roleVars, boxVars, stageVars, libVars>>

StatusReplies ==
  [available_mb : StatusAvailable, can_upload : StatusCanUpload]

\* getStorageStatus('persistent') and the capacity branch; ok = FALSE is a
\* failed request (getStorageStatus answers null and the check is skipped)
CheckStorage(ok, reply) ==
  /\ att.pc = "status"
  /\ ok <=> reply \in StatusReplies
  /\ LET st == getStorageStatus(reply)
         est == EstimatedFileSizeMb(att.kind, att.sizeMb)
         a == [att EXCEPT !.checks = @ \cup {"status"}, !.statusReply = reply,
                          !.limOk = Idle.limOk, !.cntOk = Idle.cntOk,
                          !.count = Idle.count, !.validation = Idle.validation]
     IN att' = IF ok /\ StorageFull(est, st)
                 THEN Deny([a EXCEPT !.storageInfo =
                              [maxMb |-> st.available_mb, fileSizeMb |-> est]],
                           "storage_full")
                 ELSE [a EXCEPT !.pc = ClientEntry(a.wf)]
  /\ UNCHANGED <<authVars, roleVars, boxVars, stageVars, libVars>>

----------------------------------------------------------------------------
(* Transfer client: pushToRemote, uploadDirectFile, uploadParquetBuffer *)

\* pushToRemote Step 1: exportAsZipBundle
ExportBundle ==
  /\ att.pc = "export"
  /\ att' = [att EXCEPT !.exported = TRUE, !.pc = "token",
                        !.statusReply = Idle.statusReply]
  /\ UNCHANGED <<authVars, roleVars, boxVars, stageVars, libVars>>

\* getUploadToken(filename, contentLength, storageTier)
GetUploadToken(ok) ==
  /\ att.pc = "token"
  /\ LET a == [att EXCEPT !.tokenReq = att.tier, !.statusReply = Idle.statusReply]
     IN att' = IF ok THEN [a EXCEPT !.pc = "transfer"]
               ELSE [a EXCEPT !.pc = "done", !.outcome = "failed"]
  /\ UNCHANGED <<authVars, roleVars, boxVars, stageVars, libVars>>

\* what the handler shows for a result.  A download link replaces the upload
\* button of Quick Upload and of CSV->Parquet until the caller stages another
\* file, which also replaces the staged one: the staged file is then as good
\* as absent.  Build Database keeps its tables (and "Start Over" brings the
\* push button back).
ShowResult(wf, hasUrl) ==
  /\ tables' = tables
  /\ quickStagedFile' = IF wf = "quick" /\ hasUrl THEN NoFile ELSE quickStagedFile
  /\ parquetResult' = IF wf = "parquet" /\ hasUrl THEN NoFile ELSE parquetResult

\* uploadWithToken and the handler's branch on result.success; reply is the
\* server's answer: "ok" (2xx with download_url and filename), "nourl" (2xx
\* whose body lacks them) or "fail" (anything that rejects)
UploadWithToken(reply) ==
  /\ att.pc = "transfer"
  /\ IF reply = "fail"
       THEN /\ att' = [att EXCEPT !.transfers = @ + 1, !.pc = "done", !.outcome = "failed"]
            /\ UNCHANGED stageVars
       ELSE /\ att' = [att EXCEPT !.transfers = @ + 1,
                         !.outcome = IF reply = "ok" THEN "success" ELSE "success_nourl",
                         !.pc = IF reply = "ok" /\ SavesRecord(att) THEN "record" ELSE "done"]
            /\ ShowResult(att.wf, reply = "ok")
  /\ UNCHANGED <<authVars, roleVars, boxVars, libVars>>

\* variant: a record that could not be saved turns the upload into a failure
SurfaceSaveFailure(ok, outcome) == IF ok THEN outcome ELSE "failed"

\* what the handler shows after addFileRecord has returned: addFileRecord
\* answers null on a failure and the handler's catch only logs
AfterRecordSave(ok, outcome) == outcome

\* addFileRecord; ok = FALSE is a save that failed.  No handler asks the file
\* server to delete an upload (deleteCalls stays 0).
addFileRecord(ok) ==
  /\ att.pc = "record"
  /\ att' = [att EXCEPT !.recordCalls = @ + 1, !.pc = "done",
                        !.recordSaved = IF ok THEN "saved" ELSE "failed",
                        !.outcome = AfterRecordSave(ok, @)]
  /\ UNCHANGED <<authVars, roleVars, boxVars, stageVars, libVars>>

\* the caller closes the modal or the result panel
closeResult ==
  /\ att.pc = "done"
  /\ att' = Idle
  /\ UNCHANGED <<authVars, roleVars, boxVars, stageVars, libVars>>

----------------------------------------------------------------------------

Next ==
  \/ \E e \in Identities \cup {NoUser} : refreshSession(e)
  \/ \E e \in Identities, ok \in BOOLEAN : checkAccess(e, ok)
  \/ signOut
  \/ \E e \in Identities, ok \in BOOLEAN : RoleLookupDone(e, ok)
  \/ setKeepPersistent
  \/ setKeepPersistentQuick
  \/ \E sizeMb \in TableSizes : handleBuildDrop(sizeMb)
  \/ \E sizeMb \in ParquetSizes : handleParquetDrop(sizeMb)
  \/ \E file \in QuickFiles : handleQuickDrop(file)
  \/ \E file \in QuickFiles : handleQuickFileInput(file)
  \/ handleQuickClearStaged
  \/ handlePushToRemote
  \/ PushEstimate
  \/ handleQuickUpload
  \/ handleParquetUploadToServer
  \/ \E limOk \in BOOLEAN, cntOk \in BOOLEAN, count \in 0..MaxCount :
       Validate(limOk, cntOk, count)
  \/ \E ok \in BOOLEAN, reply \in StatusReplies \cup {NoStatusReply} :
       CheckStorage(ok, reply)
  \/ ExportBundle
  \/ \E ok \in BOOLEAN : GetUploadToken(ok)
  \/ \E reply \in {"ok", "nourl", "fail"} : UploadWithToken(reply)
  \/ \E ok \in BOOLEAN : addFileRecord(ok)
  \/ closeResult

Spec == Init /\ [][Next]_vars

----------------------------------------------------------------------------
(***************************************************************************)
(* The transfer client followed step by step (lib/pushToRemote.ts).        *)
(*                                                                         *)
(* SpecClient follows one call of pushToRemote, uploadDirectFile or        *)
(* uploadParquetBuffer at a time, through every await and every progress   *)
(* value it delivers.  pc is the position of the call:                     *)
(*   "export"           inside exportAsZipBundle (pushToRemote only)       *)
(*   "token"            about to call getUploadToken                       *)
(*   "TOKEN_REQUESTED"  awaiting the answer of /api/upload-token           *)
(*   "TRANSFERRING"     xhr.send done, awaiting load / error / abort       *)
(*   "COMPLETE"         returned { success: true, ... }                    *)
(*   "FAILED"           returned { success: false, error }                 *)
(***************************************************************************)

DirectNames == {[stem |-> "data", ext |-> "parquet"],
                [stem |-> "data", ext |-> "csv"]}
ParquetSources == {[stem |-> "sales", ext |-> "csv"],
                   [stem |-> "sales", ext |-> "dat"]}
ByteLengths == {1, TotalBytes}

\* Math.round(num / den) for num >= 0, den > 0: halves round up
Round(num, den) == (2 * num + den) \div (2 * den)

\* filename.replace(/\.(csv|tsv|txt|pipe|psv)$/i, '.parquet')
parquetFilename(name) ==
  IF name.ext \in {"csv", "tsv", "txt", "pipe", "psv"}
  THEN [name EXCEPT !.ext = "parquet"]
  ELSE name

\* `${databaseName}.zip`
zipFilename(databaseName) == [stem |-> databaseName, ext |-> "zip"]

\* uploadDirectFile accepts .parquet, .duckdb and .db
DirectSupported(name) == name.ext \in {"parquet", "duckdb", "db"}

\* the caller's onProgress receives percent p
Deliver(x, p) ==
  [x EXCEPT !.monotone = @ /\ p >= x.percent, !.percent = p]

\* percent delivered when the token is there and the transfer starts
TransferBase(fn) ==
  CASE fn = "pushToRemote" -> 90
    [] fn = "uploadDirectFile" -> 10
    [] fn = "uploadParquetBuffer" -> 50

\* tenths of the transfer percentage added to the base
TransferTenths(fn) ==
  CASE fn = "pushToRemote" -> 1
    [] fn = "uploadDirectFile" -> 9
    [] fn = "uploadParquetBuffer" -> 5

\* percentage of the xhr progress event, rescaled by the public function
TransferPercent(fn, loaded, total) ==
  TransferBase(fn) + Round(Round(loaded * 100, total) * TransferTenths(fn), 10)

\* the variant that asks for the default tier
DefaultTierArgs(x) ==
  [filename |-> x.filename, content_length |-> x.bytes, storage_tier |-> "temp"]

\* getUploadToken(filename, size, storageTier) as the public functions call it
TokenArgs(x) ==
  [filename |-> x.filename, content_length |-> x.bytes, storage_tier |-> x.tier]

\* the variant that goes back to the token request after an error
RetryAfterError(x, message) ==
  [x EXCEPT !.pc = "token", !.error = message]

\* catch (error) { return { success: false, error: error.message } }
ReturnFailure(x, message) ==
  [x EXCEPT !.pc = "FAILED", !.result = "failure", !.error = message]

\* onProgress(100); return { success: true, downloadUrl: result.download_url }
ReturnSuccess(x, hasUrl) ==
  [Deliver(x, 100) EXCEPT !.pc = "COMPLETE", !.result = "success",
                          !.downloadUrl = hasUrl]

\* a call starts with nothing but the server's token counter
NewCall(fn, name, bytes, tier) ==
  [NoCall EXCEPT !.fn = fn, !.filename = name, !.bytes = bytes,
                 !.tier = tier, !.issued = xfer.issued]

\* the previous call has returned
Returned == xfer.pc \in {"idle", "COMPLETE", "FAILED"}

clientFrame == UNCHANGED <<homeVars, busy, sample, engine, restLib>>

\* pushToRemote(databaseName, onProgress, storageTier): getTables() inside
\* exportAsZipBundle answers n tables
callPushToRemote(tier, n) ==
  /\ Returned
  /\ xfer.issued < MaxTokens
  /\ LET x == [NewCall("pushToRemote", NoName, 0, tier) EXCEPT !.nTables = n]
     IN xfer' = IF n = 0
                THEN ReturnFailure(x, "No tables to export")
                ELSE [Deliver(x, 0) EXCEPT !.pc = "export"]
  /\ clientFrame

\* one round of the export loop: COPY ... TO ... (FORMAT PARQUET)
ExportTable(ok) ==
  /\ xfer.pc = "export"
  /\ xfer.exportedTables < xfer.nTables
  /\ LET x == Deliver(xfer, Round((xfer.exportedTables + 1) * 80, xfer.nTables))
     IN xfer' = IF ok
                THEN [x EXCEPT !.exportedTables = @ + 1]
                ELSE ReturnFailure(x, "engine error")
  /\ clientFrame

\* zip.generateAsync, then pushToRemote names the bundle and announces the
\* token request
CompressBundle(sizeBytes) ==
  /\ xfer.pc = "export"
  /\ xfer.exportedTables = xfer.nTables
  /\ xfer' = [Deliver(Deliver(xfer, 85), 88) EXCEPT
                !.pc = "token", !.filename = zipFilename("database"),
                !.bytes = sizeBytes]
  /\ clientFrame

\* uploadDirectFile(file, onProgress, storageTier)
callUploadDirectFile(name, bytes, tier) ==
  /\ Returned
  /\ xfer.issued < MaxTokens
  /\ LET x == NewCall("uploadDirectFile", name, bytes, tier)
     IN xfer' = IF ~DirectSupported(name)
                THEN ReturnFailure(x,
                  "Only .parquet and .duckdb files are supported for direct upload")
                ELSE [Deliver(x, 5) EXCEPT !.pc = "token"]
  /\ clientFrame

\* uploadParquetBuffer(buffer, filename, onProgress, storageTier)
callUploadParquetBuffer(name, bytes, tier) ==
  /\ Returned
  /\ xfer.issued < MaxTokens
  /\ xfer' = [Deliver(NewCall("uploadParquetBuffer", parquetFilename(name),
                              bytes, tier), 40) EXCEPT !.pc = "token"]
  /\ clientFrame

\* getUploadToken: POST /api/upload-token
RequestToken ==
  /\ xfer.pc = "token"
  /\ xfer' = [xfer EXCEPT !.pc = "TOKEN_REQUESTED", !.tokenReqs = @ + 1,
                          !.tokenArgs = TokenArgs(xfer)]
  /\ clientFrame

TokenReplies == {"ok", "status", "network"}

\* the answer of /api/upload-token; with a token the function announces the
\* transfer and uploadWithToken opens and sends the request in the same step
TokenReply(reply) ==
  /\ xfer.pc = "TOKEN_REQUESTED"
  /\ xfer' =
       CASE reply = "ok" ->
              [Deliver(xfer, TransferBase(xfer.fn)) EXCEPT
                 !.pc = "TRANSFERRING",
                 !.token = xfer.issued + 1, !.issued = @ + 1,
                 !.sends = @ + 1, !.sentToken = xfer.issued + 1,
                 !.sentName = xfer.filename, !.sentBytes = xfer.bytes]
         [] reply = "status" ->
              ReturnFailure(xfer, "Failed to get upload token: 500 - body")
         [] reply = "network" ->
              ReturnFailure(xfer, "Failed to fetch")
  /\ clientFrame

\* xhr.upload 'progress' with lengthComputable; the transport's sent-byte
\* counts do not decrease
XhrProgress(loaded) ==
  /\ xfer.pc = "TRANSFERRING"
  /\ loaded >= xfer.loaded
  /\ xfer' = [Deliver(xfer, TransferPercent(xfer.fn, loaded, TotalBytes))
                EXCEPT !.loaded = loaded]
  /\ clientFrame

LoadReplies == {"2xx url", "2xx no url", "2xx not json",
                "4xx detail", "4xx error", "4xx other", "4xx not json"}

\* xhr 'load'
XhrLoad(reply) ==
  /\ xfer.pc = "TRANSFERRING"
  /\ xfer' =
       CASE reply = "2xx url" -> ReturnSuccess(xfer, TRUE)
         [] reply = "2xx no url" -> ReturnSuccess(xfer, FALSE)
         [] reply = "2xx not json" ->
              ReturnFailure(xfer, "Invalid response from server")
         [] reply = "4xx detail" -> ReturnFailure(xfer, "detail of the body")
         [] reply = "4xx error" -> ReturnFailure(xfer, "error of the body")
         [] reply = "4xx other" -> ReturnFailure(xfer, "HTTP 400")
         [] reply = "4xx not json" ->
              ReturnFailure(xfer, "Upload failed: HTTP 400")
  /\ clientFrame

\* xhr 'error'
XhrError ==
  /\ xfer.pc = "TRANSFERRING"
  /\ xfer' = ReturnFailure(xfer, "Network error during upload")
  /\ clientFrame

\* xhr 'abort': raised by the browser, the request object is local to
\* uploadWithToken
XhrAbort ==
  /\ xfer.pc = "TRANSFERRING"
  /\ xfer' = ReturnFailure(xfer, "Upload cancelled")
  /\ clientFrame

\* the caller wants to abort the transfer in progress: the public functions
\* take no signal and return no handle, so nothing reaches the request
requestAbort ==
  /\ xfer.pc = "TRANSFERRING"
  /\ ~xfer.abortRequested
  /\ xfer' = [xfer EXCEPT !.abortRequested = TRUE]
  /\ clientFrame

NextClient ==
  \/ \E tier \in Tiers, n \in 0..MaxTables : callPushToRemote(tier, n)
  \/ \E ok \in BOOLEAN : ExportTable(ok)
  \/ \E sizeBytes \in ByteLengths : CompressBundle(sizeBytes)
  \/ \E name \in DirectNames, bytes \in ByteLengths, tier \in Tiers :
       callUploadDirectFile(name, bytes, tier)
  \/ \E name \in ParquetSources, bytes \in ByteLengths, tier \in Tiers :
       callUploadParquetBuffer(name, bytes, tier)
  \/ RequestToken
  \/ \E reply \in TokenReplies : TokenReply(reply)
  \/ \E loaded \in 0..TotalBytes : XhrProgress(loaded)
  \/ \E reply \in LoadReplies : XhrLoad(reply)
  \/ XhrError
  \/ XhrAbort
  \/ requestAbort

SpecClient == Init /\ [][NextClient]_vars

----------------------------------------------------------------------------

(***************************************************************************)
(* The in-flight flags of the page (pages/Home.tsx).                       *)
(*                                                                         *)
(* SpecGuard follows what lets the caller start a publish handler: the     *)
(* three flags isPushing, isQuickUploading and isConvertingParquet, what   *)
(* is staged for each workflow, whether its result shows a download URL,   *)
(* and how many invocations of each handler are between their start and    *)
(* their finally block.  The three sections are rendered side by side on   *)
(* one page; a button can be clicked when it is rendered and not disabled. *)
(***************************************************************************)

guardFrame == UNCHANGED <<homeVars, xfer, sample, engine, restLib>>

\* "Get Shareable Link" of Build Database: rendered with tables and without a
\* download URL, disabled={isPushing}
PushButtonEnabled ==
  busy.tables /\ ~busy.pushUrl /\ ~busy.isPushing

\* "Get Shareable Link" of Quick Upload: rendered with a staged file and
\* without a download URL; the button has no disabled attribute
QuickButtonEnabled ==
  busy.quickStagedFile /\ ~busy.quickUrl

\* "Get Shareable Link" of Convert: rendered with a converted buffer and
\* without a download URL, disabled={isConvertingParquet}
ParquetButtonEnabled ==
  busy.localBuffer /\ ~busy.parquetUrl /\ ~busy.isConvertingParquet

\* a file was ingested into the engine
ImportDone ==
  /\ ~busy.tables
  /\ busy' = [busy EXCEPT !.tables = TRUE]
  /\ guardFrame

\* "Start Over" of the Build Database result
StartOver ==
  /\ busy.pushUrl
  /\ busy' = [busy EXCEPT !.pushUrl = FALSE]
  /\ guardFrame

\* handleQuickDrop with one accepted file
StageQuickFile ==
  /\ ~busy.quickStagedFile \/ busy.quickUrl
  /\ busy' = [busy EXCEPT !.quickStagedFile = TRUE, !.quickUrl = FALSE]
  /\ guardFrame

\* handleQuickClearStaged
ClearQuickFile ==
  /\ busy.quickStagedFile
  /\ busy' = [busy EXCEPT !.quickStagedFile = FALSE, !.quickUrl = FALSE]
  /\ guardFrame

\* a conversion has produced a Parquet buffer
ConvertDone ==
  /\ ~busy.isConvertingParquet
  /\ ~busy.localBuffer \/ busy.parquetUrl
  /\ busy' = [busy EXCEPT !.localBuffer = TRUE, !.parquetUrl = FALSE]
  /\ guardFrame

\* click on the Build Database button: handlePushToRemote starts
StartPush ==
  /\ PushButtonEnabled
  /\ busy.pushRunning < MaxRunning
  /\ busy' = [busy EXCEPT !.isPushing = TRUE, !.pushUrl = FALSE,
                          !.pushRunning = @ + 1]
  /\ guardFrame

\* handlePushToRemote reaches its finally block
FinishPush(hasUrl) ==
  /\ busy.pushRunning > 0
  /\ busy' = [busy EXCEPT !.isPushing = FALSE, !.pushUrl = hasUrl,
                          !.pushRunning = @ - 1]
  /\ guardFrame

\* click on the Quick Upload button: handleQuickUpload starts
StartQuick ==
  /\ QuickButtonEnabled
  /\ busy.quickRunning < MaxRunning
  /\ busy' = [busy EXCEPT !.isQuickUploading = TRUE, !.quickUrl = FALSE,
                          !.quickRunning = @ + 1]
  /\ guardFrame

\* handleQuickUpload reaches its finally block
FinishQuick(hasUrl) ==
  /\ busy.quickRunning > 0
  /\ busy' = [busy EXCEPT !.isQuickUploading = FALSE, !.quickUrl = hasUrl,
                          !.quickRunning = @ - 1]
  /\ guardFrame

\* click on the Convert upload button: handleParquetUploadToServer starts
StartParquet ==
  /\ ParquetButtonEnabled
  /\ busy.parquetRunning < MaxRunning
  /\ busy' = [busy EXCEPT !.isConvertingParquet = TRUE,
                          !.parquetRunning = @ + 1]
  /\ guardFrame

\* handleParquetUploadToServer reaches its finally block
FinishParquet(hasUrl) ==
  /\ busy.parquetRunning > 0
  /\ busy' = [busy EXCEPT !.isConvertingParquet = FALSE,
                          !.parquetUrl = hasUrl, !.parquetRunning = @ - 1]
  /\ guardFrame

NextGuard ==
  \/ ImportDone
  \/ StartOver
  \/ StageQuickFile
  \/ ClearQuickFile
  \/ ConvertDone
  \/ StartPush
  \/ \E hasUrl \in BOOLEAN : FinishPush(hasUrl)
  \/ StartQuick
  \/ \E hasUrl \in BOOLEAN : FinishQuick(hasUrl)
  \/ StartParquet
  \/ \E hasUrl \in BOOLEAN : FinishParquet(hasUrl)

SpecGuard == Init /\ [][NextGuard]_vars

----------------------------------------------------------------------------
(***************************************************************************)
(* Delimiter inference of the ingestion (lib/duckdb.ts).                   *)
(*                                                                         *)
(* SpecDelim builds the head of a text file character by character and     *)
(* then lets importCSV choose the delimiter it hands to read_csv.          *)
(***************************************************************************)

Pipe == "|"
Tab == "\t"
Comma == ","
NewLine == "\n"
SampleChars == {Pipe, Tab, Comma, NewLine, "a"}
TextExtensions == {"csv", "txt", "tsv", "psv", "pipe"}

delimFrame == UNCHANGED <<homeVars, xfer, busy, engine, restLib>>

\* text.split('\n')[0] || ''
RECURSIVE FirstLine(_)
FirstLine(text) ==
  IF text = <<>> \/ Head(text) = NewLine
  THEN <<>>
  ELSE <<Head(text)>> \o FirstLine(Tail(text))

\* (firstLine.match(/c/g) || []).length
CountOf(c, line) == Cardinality({i \in 1..Len(line) : line[i] = c})

\* detectDelimiter(file)
detectDelimiter(text) ==
  LET firstLine == FirstLine(text)
      pipeCount == CountOf(Pipe, firstLine)
      tabCount == CountOf(Tab, firstLine)
      commaCount == CountOf(Comma, firstLine)
  IN IF pipeCount > 0 /\ pipeCount >= tabCount /\ pipeCount >= commaCount
     THEN Pipe
     ELSE IF tabCount > 0 /\ tabCount >= commaCount
          THEN Tab
          ELSE Comma

\* the delimiter importCSV passes to read_csv for a file of this extension
DelimiterFor(ext, text) ==
  IF ext \in {"pipe", "psv"} THEN Pipe
  ELSE IF ext = "tsv" THEN Tab
  ELSE detectDelimiter(text)

\* the file gets one more character
AppendChar(c) ==
  /\ sample.delimiter = "none"
  /\ Len(sample.text) < MaxLineLen
  /\ sample' = [sample EXCEPT !.text = Append(@, c)]
  /\ delimFrame

\* importCSV(file, tableName) up to the choice of the delimiter
ChooseDelimiter(ext) ==
  /\ sample.delimiter = "none"
  /\ sample' = [sample EXCEPT !.ext = ext,
                              !.delimiter = DelimiterFor(ext, sample.text)]
  /\ delimFrame

\* the next file is dropped
NextFile ==
  /\ sample.delimiter # "none"
  /\ sample' = NoSample
  /\ delimFrame

NextDelim ==
  \/ \E c \in SampleChars : AppendChar(c)
  \/ \E ext \in TextExtensions : ChooseDelimiter(ext)
  \/ NextFile

SpecDelim == Init /\ [][NextDelim]_vars

----------------------------------------------------------------------------
(***************************************************************************)
(* The in-browser engine as lib/duckdb.ts uses it.                         *)
(*                                                                         *)
(* SpecEngine follows the catalog of the main schema (table name ->        *)
(* row count and column set) through importCSV and the export functions.   *)
(* last is the call made last, with the catalog it found.                  *)
(***************************************************************************)

\* the stems of the dropped files and what read_csv finds in them
Stems == {<<"t", "-">>, <<"t", "_">>, <<"u">>}
Contents == {[rows |-> 1, cols |-> {"a"}], [rows |-> 2, cols |-> {"a", "b"}]}

engineFrame == UNCHANGED <<homeVars, xfer, busy, sample, restLib>>

\* .replace(/[^a-zA-Z0-9_]/g, '_') on the characters the stems are made of
SanitizeChar(c) == IF c \in {"t", "u", "_"} THEN c ELSE "_"
tableName(stem) == [i \in 1..Len(stem) |-> SanitizeChar(stem[i])]

\* getTables(): the base tables of the main schema
getTables(db) == {n \in TableNames : db[n] # NoTable}

\* the variant that appends the rows and unites the columns
AppendToTable(old, new) ==
  IF old = NoTable THEN new
  ELSE [rows |-> old.rows + new.rows, cols |-> old.cols \cup new.cols]

\* CREATE OR REPLACE TABLE name AS SELECT * FROM read_csv(file)
CreateOrReplaceTable(old, new) == new

\* the variant that exports whenever there is a table
AnyTableExport(n) == n >= 1

\* exportToParquet goes on to COPY with exactly one table
SingleTableExport(n) == n = 1

\* importCSV(file, tableName) as handleBuildDrop calls it; a failing read_csv
\* leaves the catalog as it was
importCSV(stem, content, ok) ==
  LET name == tableName(stem)
  IN /\ engine' =
          [db |-> IF ok
                  THEN [engine.db EXCEPT
                          ![name] = CreateOrReplaceTable(@, content)]
                  ELSE engine.db,
           last |-> [op |-> "importCSV", table |-> name, content |-> content,
                     before |-> engine.db,
                     again |-> /\ engine.last.op = "importCSV"
                               /\ engine.last.result = "ok"
                               /\ engine.last.table = name
                               /\ engine.last.content = content,
                     result |-> IF ok THEN "ok" ELSE "engine error"]]
     /\ engineFrame

\* what an export call leaves behind
Exported(op, result) ==
  [db |-> engine.db,
   last |-> [NoOp EXCEPT !.op = op, !.before = engine.db, !.result = result]]

\* exportToParquet()
exportToParquet(ok) ==
  LET n == Cardinality(getTables(engine.db))
  IN /\ engine' = Exported("exportToParquet",
          IF n = 0 THEN "No tables to export"
          ELSE IF SingleTableExport(n)
               THEN (IF ok THEN "bytes" ELSE "engine error")
               ELSE "Multiple tables - use exportToDuckDB instead")
     /\ engineFrame

\* exportToDuckDB()
exportToDuckDB(ok) ==
  LET n == Cardinality(getTables(engine.db))
  IN /\ engine' = Exported("exportToDuckDB",
          IF n = 0 THEN "No tables to export"
          ELSE IF ok THEN "bytes" ELSE "engine error")
     /\ engineFrame

\* exportAsZipBundle(onProgress) of lib/pushToRemote.ts
exportAsZipBundle(ok) ==
  LET n == Cardinality(getTables(engine.db))
  IN /\ engine' = Exported("exportAsZipBundle",
          IF n = 0 THEN "No tables to export"
          ELSE IF ok THEN "bytes" ELSE "engine error")
     /\ engineFrame

\* resetDuckDB(): the engine is terminated, the next call starts a new one
resetDuckDB ==
  /\ engine # EmptyEngine
  /\ engine' = EmptyEngine
  /\ engineFrame

NextEngine ==
  \/ \E stem \in Stems, content \in Contents, ok \in BOOLEAN :
       importCSV(stem, content, ok)
  \/ \E ok \in BOOLEAN : exportToParquet(ok)
  \/ \E ok \in BOOLEAN : exportToDuckDB(ok)
  \/ \E ok \in BOOLEAN : exportAsZipBundle(ok)
  \/ resetDuckDB

SpecEngine == Init /\ [][NextEngine]_vars

----------------------------------------------------------------------------
(***************************************************************************)
(* The two bundle exporters: exportAsZipBundle (lib/pushToRemote.ts, used  *)
(* by the push) and exportToDuckDB (lib/duckdb.ts, the standalone export). *)
(*                                                                         *)
(* SpecBundle follows one export: the table list read once by getTables,   *)
(* the loop that copies each table into the ZIP, and the entries added     *)
(* after the loop.  members is the set of file names in the ZIP, manifest  *)
(* the tables array of manifest.json, schema the tables of the CREATE      *)
(* TABLE statements of schema.sql in the order they are written.           *)
(***************************************************************************)

\* the table names of the catalog in the order of ORDER BY table_name
TableOrder == <<"a", "b", "c", "d">>
BundleExporters == {"exportAsZipBundle", "exportToDuckDB"}

bundleFrame == UNCHANGED <<homeVars, firstLib, scratch, records, acc, proxy>>

\* getTables() on a catalog that holds the tables present
TablesOf(present) == SelectSeq(TableOrder, LAMBDA n : n \in present)

\* `${table.name}.parquet`
ParquetMember(name) == [stem |-> name, ext |-> "parquet"]
ManifestMember == [stem |-> "manifest", ext |-> "json"]
SchemaMember == [stem |-> "schema", ext |-> "sql"]
ReadmeMember == [stem |-> "README", ext |-> "md"]

\* { name, files: [fileName], rowCount }
ManifestEntry(name) == [name |-> name, files |-> <<ParquetMember(name)>>]

\* the variant that writes the statements last table first
RECURSIVE ReverseOrder(_)
ReverseOrder(tbls) ==
  IF tbls = <<>> THEN <<>> ELSE ReverseOrder(Tail(tbls)) \o <<Head(tbls)>>

\* the CREATE TABLE statements: one per table, in the order of tables
SchemaStatements(tbls) == tbls

\* the entries the exporter adds after the table loop besides manifest.json
\* and schema.sql: exportAsZipBundle adds README.md, exportToDuckDB nothing
ExtraMembers(exporter) ==
  IF exporter = "exportAsZipBundle" THEN {ReadmeMember} ELSE {}

\* the exporter is called; it reads the table list once
StartExport(exporter, present) ==
  /\ bundle.pc \in {"idle", "done", "failed"}
  /\ bundle' = IF present = {}
               THEN [NoBundle EXCEPT !.exporter = exporter, !.pc = "failed"]
               ELSE [NoBundle EXCEPT !.exporter = exporter, !.pc = "loop",
                                     !.tables = TablesOf(present)]
  /\ bundleFrame

\* one round of the table loop: COPY, copyFileToBuffer, zip.file; the
\* exporter of the push also pushes the manifest entry here
CopyTable(ok) ==
  /\ bundle.pc = "loop"
  /\ bundle.i < Len(bundle.tables)
  /\ LET name == bundle.tables[bundle.i + 1]
     IN bundle' =
          IF ~ok THEN [bundle EXCEPT !.pc = "failed"]
          ELSE [bundle EXCEPT
                  !.i = @ + 1,
                  !.members = @ \cup {ParquetMember(name)},
                  !.manifest = IF bundle.exporter = "exportAsZipBundle"
                               THEN Append(@, ManifestEntry(name)) ELSE @]
  /\ bundleFrame

\* after the loop: manifest.json, schema.sql, (README.md), generateAsync
FinishBundle ==
  /\ bundle.pc = "loop"
  /\ bundle.i = Len(bundle.tables)
  /\ bundle' =
       [bundle EXCEPT
          !.pc = "done",
          !.manifest = IF bundle.exporter = "exportToDuckDB"
                       THEN [k \in 1..Len(bundle.tables) |->
                               ManifestEntry(bundle.tables[k])]
                       ELSE @,
          !.schema = SchemaStatements(bundle.tables),
          !.members = @ \cup {ManifestMember, SchemaMember}
                        \cup ExtraMembers(bundle.exporter)]
  /\ bundleFrame

NextBundle ==
  \/ \E exporter \in BundleExporters, present \in SUBSET {"a", "b", "c", "d"} :
       StartExport(exporter, present)
  \/ \E ok \in BOOLEAN : CopyTable(ok)
  \/ FinishBundle

SpecBundle == Init /\ [][NextBundle]_vars

----------------------------------------------------------------------------
(***************************************************************************)
(* Transient state of the engine: convertCsvToParquet,                     *)
(* estimateDatabaseSize (lib/duckdb.ts) and exportAsZipBundle              *)
(* (lib/pushToRemote.ts).                                                  *)
(*                                                                         *)
(* SpecScratch follows the catalog of the main schema and the files of the *)
(* engine's virtual file system through one conversion (conv) and one      *)
(* estimate or bundle export (job) that may overlap: each await of the     *)
(* two functions is a step, and the steps interleave freely.               *)
(***************************************************************************)

\* tempTableName of convertCsvToParquet
TempTable == "_temp_csv_to_parquet_"
IngestNames == {"a", "b"}
\* ORDER BY table_name over the names of the model
CatalogOrder == <<TempTable, "a", "b">>
\* buffer.length of the columnar export of a table
ParquetBytes(name) ==
  CASE name = "a" -> 3
    [] name = "b" -> 5
    [] name = TempTable -> 7

scratchFrame == UNCHANGED <<homeVars, firstLib, bundle, records, acc, proxy>>

\* outputFile of convertCsvToParquet
ConvertedFile == [stem |-> "sales", ext |-> "parquet", prefix |-> ""]
\* fileName in the table loop of the estimate and of the bundle export
JobFile(kind, name) ==
  [stem |-> name, ext |-> "parquet",
   prefix |-> IF kind = "estimateDatabaseSize" THEN "_estimate_" ELSE ""]

\* the variant that keeps counting from the previous estimate
CarriedTotal(prev) == IF prev < 0 THEN 0 ELSE prev

\* let totalSize = 0
InitialTotal(prev) == 0

\* importCSV has created a table
Ingested(name) ==
  /\ name \notin scratch.catalog
  /\ scratch' = [scratch EXCEPT !.catalog = @ \cup {name}]
  /\ scratchFrame

\* convertCsvToParquet: CREATE OR REPLACE TABLE "_temp_csv_to_parquet_"
ConvertCreate(ok) ==
  /\ scratch.conv = "idle"
  /\ scratch' = IF ok
                THEN [scratch EXCEPT !.catalog = @ \cup {TempTable},
                                     !.conv = "created", !.convResult = "none"]
                ELSE [scratch EXCEPT !.convResult = "failed"]
  /\ scratchFrame

\* convertCsvToParquet: SELECT COUNT(*) and COPY ... TO outputFile
ConvertCopy(ok) ==
  /\ scratch.conv = "created"
  /\ scratch' = IF ok
                THEN [scratch EXCEPT !.files = @ \cup {ConvertedFile},
                                     !.conv = "copied"]
                ELSE [scratch EXCEPT !.conv = "idle", !.convResult = "failed"]
  /\ scratchFrame

\* convertCsvToParquet: copyFileToBuffer, DROP TABLE IF EXISTS, return
ConvertFinish(ok) ==
  /\ scratch.conv = "copied"
  /\ scratch' = IF ok
                THEN [scratch EXCEPT !.catalog = @ \ {TempTable},
                                     !.conv = "idle", !.convResult = "buffer"]
                ELSE [scratch EXCEPT !.conv = "idle", !.convResult = "failed"]
  /\ scratchFrame

\* estimateDatabaseSize() or exportAsZipBundle() is called: getTables()
StartJob(kind) ==
  /\ scratch.job.pc \in {"idle", "done", "failed"}
  /\ LET tbls == SelectSeq(CatalogOrder, LAMBDA n : n \in scratch.catalog)
         job == [scratch.job EXCEPT
                   !.kind = kind, !.tables = tbls, !.i = 0,
                   !.totalSize = InitialTotal(scratch.job.prevSize),
                   !.result = "none", !.pc = "loop"]
     IN scratch' =
          [scratch EXCEPT !.job =
             IF tbls # <<>> THEN job
             ELSE IF kind = "estimateDatabaseSize"
                  THEN [job EXCEPT !.pc = "done", !.result = "size",
                                   !.totalSize = 0,
                                   !.prevTables = tbls, !.prevSize = 0]
                  ELSE [job EXCEPT !.pc = "failed",
                                   !.result = "No tables to export"]]
  /\ scratchFrame

\* one round of the table loop: COPY "table" TO fileName, copyFileToBuffer
JobCopy(ok) ==
  /\ scratch.job.pc = "loop"
  /\ scratch.job.i < Len(scratch.job.tables)
  /\ LET name == scratch.job.tables[scratch.job.i + 1]
     IN scratch' =
          IF name \notin scratch.catalog
          THEN [scratch EXCEPT !.job.pc = "failed",
                               !.job.result = "table does not exist"]
          ELSE IF ~ok
          THEN [scratch EXCEPT !.job.pc = "failed",
                               !.job.result = "engine error"]
          ELSE [scratch EXCEPT
                  !.files = @ \cup {JobFile(scratch.job.kind, name)},
                  !.job.i = @ + 1,
                  !.job.totalSize = @ + ParquetBytes(name)]
  /\ scratchFrame

\* the loop is over: return totalSize / the ZIP
JobDone ==
  /\ scratch.job.pc = "loop"
  /\ scratch.job.i = Len(scratch.job.tables)
  /\ scratch' =
       IF scratch.job.kind = "estimateDatabaseSize"
       THEN [scratch EXCEPT !.job.pc = "done", !.job.result = "size",
                            !.job.prevTables = scratch.job.tables,
                            !.job.prevSize = scratch.job.totalSize]
       ELSE [scratch EXCEPT !.job.pc = "done", !.job.result = "bundle"]
  /\ scratchFrame

NextScratch ==
  \/ \E name \in IngestNames : Ingested(name)
  \/ \E ok \in BOOLEAN : ConvertCreate(ok)
  \/ \E ok \in BOOLEAN : ConvertCopy(ok)
  \/ \E ok \in BOOLEAN : ConvertFinish(ok)
  \/ \E kind \in {"estimateDatabaseSize", "exportAsZipBundle"} : StartJob(kind)
  \/ \E ok \in BOOLEAN : JobCopy(ok)
  \/ JobDone

SpecScratch == Init /\ [][NextScratch]_vars

----------------------------------------------------------------------------
(***************************************************************************)
(* The File Records behind the database proxy (files.* operations).        *)
(*                                                                         *)
(* SpecFiles follows the rows of the files table through files.add and     *)
(* files.delete; files.list and files.count are the operators FilesList    *)
(* and FilesCount over the rows.  last is the call answered last, with the *)
(* rows it found.                                                          *)
(***************************************************************************)

filesFrame == UNCHANGED <<homeVars, firstLib, bundle, scratch, acc, proxy>>

\* what the request to the storage backend's /delete can do
PurgeOutcomes == {"ok", "status", "throws"}

\* or=(is_deleted.is.null,is_deleted.eq.false)
NotDeleted(row) == row.is_deleted \in {"null", "false"}

\* files.list: the ids of the rows of the caller that are not deleted
FilesList(files, email) ==
  {i \in FileIds : files[i] # NoRecord /\ files[i].user_email = email
                     /\ NotDeleted(files[i])}

\* files.count
FilesCount(files, email) == Cardinality(FilesList(files, email))

\* the variant in which a failed purge ends the operation
PurgeMustSucceed(purge) == purge \in {"skipped", "ok"}

\* try { await fetch(.../delete) } catch (e) { console.warn }: the soft
\* delete follows whatever the purge did
SoftDeleteFollows(purge) == TRUE

\* files.add: POST /files
filesAdd(email, id, hasServerFilename) ==
  /\ records.files[id] = NoRecord
  /\ records' =
       [files |-> [records.files EXCEPT ![id] =
                     [user_email |-> email,
                      server_filename |-> hasServerFilename,
                      is_deleted |-> "false", deleted_at |-> "null"]],
        last |-> [NoFilesCall EXCEPT !.op = "files.add", !.email = email,
                                     !.id = id, !.before = records.files,
                                     !.status = 200]]
  /\ filesFrame

\* files.delete: look up server_filename, ask the backend to purge, PATCH
\* is_deleted and deleted_at on the row of this id and this email
filesDelete(email, id, datenum, purge, storeOk) ==
  LET row == records.files[id]
      owned == row # NoRecord /\ row.user_email = email
      purged == IF owned /\ row.server_filename /\ datenum
                THEN purge ELSE "skipped"
      patched == storeOk /\ SoftDeleteFollows(purged)
  IN /\ records' =
          [files |-> IF patched /\ owned
                     THEN [records.files EXCEPT
                             ![id].is_deleted = "true",
                             ![id].deleted_at = "timestamp"]
                     ELSE records.files,
           last |-> [op |-> "files.delete", email |-> email, id |-> id,
                     purge |-> purged, storeOk |-> storeOk,
                     before |-> records.files,
                     status |-> IF patched THEN 200 ELSE 500]]
     /\ filesFrame

NextFiles ==
  \/ \E email \in {"pro", "adm"}, id \in FileIds, named \in BOOLEAN :
       filesAdd(email, id, named)
  \/ \E email \in {"pro", "adm"}, id \in FileIds, datenum \in BOOLEAN,
         purge \in PurgeOutcomes, storeOk \in BOOLEAN :
       filesDelete(email, id, datenum, purge, storeOk)

SpecFiles == Init /\ [][NextFiles]_vars

----------------------------------------------------------------------------
(***************************************************************************)
(* The serverless proxies api/upload-token.ts and api/status.ts.           *)
(*                                                                         *)
(* SpecProxy follows one request at a time through a handler: proxy is the *)
(* request answered last, what was sent to the backend for it and what the *)
(* handler answered.  URLs are sequences of characters.                    *)
(***************************************************************************)

Methods == {"OPTIONS", "GET", "POST", "PUT"}
\* req.body.filename: missing, the empty string, or a name
Filenames == {"missing", "", "data.parquet"}
\* storage_tier of the body / tier of the query
RequestTiers == {"missing", "", "temp", "persistent"}
\* DUCKIT_SERVER_URL with and without a trailing slash
BaseUrls == {<<"h", "/">>, <<"h">>}
\* upload_url of the backend's token response
BackendUploadUrl == <<"/", "u">>
\* what the backend does with the forwarded request
BackendReplies == {"ok", "status", "throws"}

proxyFrame == UNCHANGED <<homeVars, firstLib, bundle, scratch, records, acc>>

\* the variant that joins the base URL as it is configured
KeepBase(url) == url

\* DUCKIT_SERVER_URL.replace(/\/$/, '')
StripTrailingSlash(url) ==
  IF url # <<>> /\ url[Len(url)] = "/" THEN SubSeq(url, 1, Len(url) - 1)
  ELSE url

\* storage_tier || 'temp'
OrTemp(tier) == IF tier \in {"missing", ""} THEN "temp" ELSE tier

\* the answer of a handler that stops before the backend request, 0 if it
\* goes on: preflight, method, API key, (upload-token only) filename
GateStatus(allowed, withFilename, method, keyed, filename) ==
  IF method = "OPTIONS" THEN 200
  ELSE IF method # allowed THEN 405
  ELSE IF ~keyed THEN 500
  ELSE IF withFilename /\ filename \in {"missing", ""} THEN 400
  ELSE 0

\* the request as the handler finds it
Received(fn, method, keyed, filename, tier, base) ==
  [NoRequest EXCEPT !.fn = fn, !.method = method, !.keyed = keyed,
                    !.filename = filename, !.tier = tier, !.base = base]

\* the request was forwarded and the backend has answered
Forwarded(req, method, tier, reply) ==
  [req EXCEPT !.backendCalls = 1, !.backendMethod = method,
              !.forwarded = tier, !.backend = reply,
              !.status = CASE reply = "ok" -> 200
                           [] reply = "status" -> 503
                           [] reply = "throws" -> 500]

\* api/upload-token.ts handler
uploadTokenHandler(method, keyed, filename, tier, base, reply) ==
  LET req == Received("upload-token", method, keyed, filename, tier, base)
      gate == GateStatus("POST", TRUE, method, keyed, filename)
      sent == Forwarded(req, "POST", OrTemp(tier), reply)
  IN /\ proxy' =
          IF gate # 0 THEN [req EXCEPT !.status = gate]
          ELSE IF reply = "ok"
          THEN [sent EXCEPT !.full_upload_url =
                               StripTrailingSlash(base) \o BackendUploadUrl]
          ELSE sent
     /\ proxyFrame

\* api/status.ts handler
statusHandler(method, keyed, tier, base, reply) ==
  LET req == Received("status", method, keyed, "missing", tier, base)
      gate == GateStatus("GET", FALSE, method, keyed, "missing")
  IN /\ proxy' = IF gate # 0 THEN [req EXCEPT !.status = gate]
                 ELSE Forwarded(req, "GET", "none", reply)
     /\ proxyFrame

NextProxy ==
  \/ \E method \in Methods, keyed \in BOOLEAN, filename \in Filenames,
         tier \in RequestTiers, base \in BaseUrls, reply \in BackendReplies :
       uploadTokenHandler(method, keyed, filename, tier, base, reply)
  \/ \E method \in Methods, keyed \in BOOLEAN, tier \in RequestTiers,
         base \in BaseUrls, reply \in BackendReplies :
       statusHandler(method, keyed, tier, base, reply)

SpecProxy == Init /\ [][NextProxy]_vars

----------------------------------------------------------------------------
(***************************************************************************)
(* The engine accessor of lib/duckdb.ts: the module variables db and conn, *)
(* initDuckDB, getConnection and resetDuckDB.                              *)
(*                                                                         *)
(* SpecAccessor follows up to MaxCallers overlapping calls.  An engine     *)
(* instance is the number of its creation since the last reset, 0 is null; *)
(* ready holds the instances whose instantiate() has finished.  Each await *)
(* of a call is a step.                                                    *)
(***************************************************************************)

accFrame == UNCHANGED <<homeVars, firstLib, bundle, scratch, records, proxy>>

\* if (!conn) conn = await db.connect(); return conn -- up to the await
ConnectOrReturn(a, c) ==
  IF a.conn # 0
  THEN [a EXCEPT !.callers[c].pc = "done", !.callers[c].got = a.conn,
                 !.callers[c].gotReady = TRUE]
  ELSE [a EXCEPT !.callers[c].pc = "connect", !.callers[c].mine = a.db]

\* initDuckDB() is called: if (db) return db
initDuckDB(c) ==
  /\ acc.callers[c].pc = "idle"
  /\ acc' = IF acc.db # 0
            THEN [acc EXCEPT !.callers[c] =
                    [fn |-> "initDuckDB", pc |-> "done", mine |-> 0,
                     got |-> acc.db, gotReady |-> acc.db \in acc.ready]]
            ELSE [acc EXCEPT !.callers[c] =
                    [NoCaller EXCEPT !.fn = "initDuckDB", !.pc = "select"]]
  /\ accFrame

\* getConnection() is called: if (!db) await initDuckDB()
getConnection(c) ==
  /\ acc.callers[c].pc = "idle"
  /\ acc' = IF acc.db = 0
            THEN [acc EXCEPT !.callers[c] =
                    [NoCaller EXCEPT !.fn = "getConnection", !.pc = "select"]]
            ELSE ConnectOrReturn(
                   [acc EXCEPT !.callers[c] =
                      [NoCaller EXCEPT !.fn = "getConnection"]], c)
  /\ accFrame

\* selectBundle has answered: the worker is made, db is assigned and
\* instantiate starts
CreateInstance(c) ==
  /\ acc.callers[c].pc = "select"
  /\ acc.created < MaxInstances
  /\ LET inst == acc.created + 1
     IN acc' = [acc EXCEPT !.db = inst,
                           !.created = inst,
                           !.callers[c].mine = inst,
                           !.callers[c].pc = "instantiate"]
  /\ accFrame

\* instantiate has finished: return db; getConnection goes on to conn
Instantiated(c) ==
  /\ acc.callers[c].pc = "instantiate"
  /\ LET a == [acc EXCEPT !.ready = @ \cup {acc.callers[c].mine}]
     IN acc' = IF acc.callers[c].fn = "initDuckDB"
               THEN [a EXCEPT !.callers[c].pc = "done",
                              !.callers[c].got = a.db,
                              !.callers[c].gotReady = a.db \in a.ready]
               ELSE ConnectOrReturn(a, c)
  /\ accFrame

\* db.connect() has answered: conn is assigned and returned
Connected(c) ==
  /\ acc.callers[c].pc = "connect"
  /\ acc.connected < MaxInstances
  /\ acc' = [acc EXCEPT !.conn = acc.connected + 1,
                        !.connected = @ + 1,
                        !.callers[c].pc = "done",
                        !.callers[c].got = acc.connected + 1,
                        !.callers[c].gotReady =
                          acc.callers[c].mine \in acc.ready]
  /\ accFrame

\* the caller has its answer and may call again
Release(c) ==
  /\ acc.callers[c].pc = "done"
  /\ acc' = [acc EXCEPT !.callers[c] = NoCaller]
  /\ accFrame

\* resetDuckDB() with no call in flight: conn.close, db.terminate
ResetAccessor ==
  /\ \A c \in 1..MaxCallers : acc.callers[c].pc = "idle"
  /\ acc # NoAccessor
  /\ acc' = NoAccessor
  /\ accFrame

NextAccessor ==
  \/ \E c \in 1..MaxCallers : initDuckDB(c)
  \/ \E c \in 1..MaxCallers : getConnection(c)
  \/ \E c \in 1..MaxCallers : CreateInstance(c)
  \/ \E c \in 1..MaxCallers : Instantiated(c)
  \/ \E c \in 1..MaxCallers : Connected(c)
  \/ \E c \in 1..MaxCallers : Release(c)
  \/ ResetAccessor

SpecAccessor == Init /\ [][NextAccessor]_vars

----------------------------------------------------------------------------
(* Properties *)

CeilingBeforeQuotas ==
  LET exceeds ==
        CASE att.wf = "build" -> att.sizeMb * InflationFactor > BuildCeilingMb
          [] att.wf = "parquet" -> att.sizeMb > ParquetCeilingMb
          [] att.wf = "quick" ->
               att.sizeMb > (IF att.kind = "parquet" THEN ParquetCeilingMb
                             ELSE MAX_UPLOAD_SIZE_MB)
          [] OTHER -> FALSE
  IN (att.role # "admin" /\ exceeds) =>
       /\ att.checks \subseteq {"size"}
       /\ att.tokenReq = "none"
       /\ att.pc = "done" => att.outcome = "too_large"

CapacityQuota ==
  /\ att.statusReply # NoStatusReply =>
       LET r == att.statusReply
           est == IF att.kind = "parquet" THEN 2 * att.sizeMb ELSE att.sizeMb
           avail == IF r.available_mb = Missing THEN 0 ELSE r.available_mb
       IN (est > avail \/ r.can_upload = "false") =>
            /\ att.outcome = "storage_full" /\ att.pc = "done"
            /\ att.storageInfo = [maxMb |-> avail, fileSizeMb |-> est]
            /\ att.tokenReq = "none" /\ att.transfers = 0 /\ ~att.exported
  /\ (att.role # "admin" /\ att.tier # "temp" /\ att.email # NoUser
        /\ att.tokenReq # "none") => "status" \in att.checks

\* a 13 MB columnar artifact, estimated at 26 MB, was denied against 20 MB
CapacityQuotaWitness ==
  /\ att.outcome = "storage_full" /\ att.kind = "parquet" /\ att.sizeMb = 13
  /\ att.statusReply.available_mb = 20 /\ att.statusReply.can_upload = "true"
  /\ att.storageInfo = [maxMb |-> 20, fileSizeMb |-> 26]

\* C5 - A denial is terminal: a denied invocation has returned, and it made no
\* bundle export, no token request, no transfer and no record save; in Build
\* Database a bundle is exported only by an admin invocation or after the
\* size check and, where the quotas apply, the file-count and capacity checks.
DenialTerminal ==
  /\ att.outcome \in Denials =>
       /\ att.pc = "done"
       /\ ~att.exported /\ att.tokenReq = "none"
       /\ att.transfers = 0 /\ att.recordCalls = 0
  /\ att.transfers <= 1
  /\ (att.wf = "build" /\ att.exported) =>
       \/ att.role = "admin"
       \/ /\ "size" \in att.checks
          /\ (att.keep /\ att.allowed /\ att.email # NoUser /\ att.tier # "temp")
               => {"count", "status"} \subseteq att.checks

\* a Build Database push was denied for capacity after both earlier checks
DenialTerminalWitness ==
  /\ att.wf = "build" /\ att.outcome = "storage_full" /\ att.pc = "done"
  /\ att.checks = {"size", "count", "status"} /\ att.tier # "temp"

\* C6 - Denials are precise: a denial shown as file-count limit was produced
\* by the file-count rule, and the detail it shows equals the count and the
\* maximum that the check computed.
DenialsPrecise ==
  att.outcome = "file_limit" =>
    /\ att.validation.reason = "FILE_COUNT_LIMIT"
    /\ att.fileLimitInfo = [userFileCount |-> att.validation.userFileCount,
                            maxFiles |-> att.validation.maxFiles]

\* C7 - Tier substitution: the tier of an invocation is temp whenever the
\* caller is not allowed or did not opt in; a non-temp tier needs both and is
\* then the tier of the caller's role; the token is requested with that tier;
\* the substitution never ends in a quota denial.
TierSubstitution ==
  att.wf # "none" =>
    /\ (~att.allowed \/ ~att.keep) => att.tier = "temp"
    /\ att.tier # "temp" =>
         /\ att.allowed /\ att.keep
         /\ att.tier = IF att.role = "admin" THEN "permanent" ELSE "persistent"
    /\ att.tokenReq \in {"none", att.tier}
    /\ (~att.allowed \/ ~att.keep) => att.outcome \notin {"file_limit", "storage_full"}

\* a caller who is no longer allowed, with the box still checked, uploaded as temp
TierSubstitutionWitness ==
  /\ att.keep /\ ~att.allowed
  /\ att.tokenReq = "temp" /\ att.outcome = "success"

\* C8 - A blocked identity is never allowed, and no token is requested with a
\* non-temp tier for a blocked identity or without an identity.
BlockedNeverPersistent ==
  /\ (user # NoUser /\ DbStatus[user] = "blocked") => ~isAllowed
  /\ (att.email = NoUser \/ DbStatus[att.email] = "blocked")
       => att.tokenReq \in {"none", "temp"}

\* C9 - ROLE_NOT_LOADED guard: no publish handler runs from a render in which
\* the role lookup is in progress.
RoleNotLoadedGuard ==
  att.wf # "none" => ~att.loading

\* C10 - File Record: addFileRecord is called only after a successful upload
\* whose token was requested with a non-temp tier, and every finished
\* successful non-temp upload made exactly one such call.
RecordOnlyForNonTempSuccess ==
  /\ att.recordCalls > 0 =>
       att.outcome = "success" /\ att.tokenReq \in {"persistent", "permanent"}
  /\ (att.pc = "done" /\ att.outcome \in {"success", "success_nourl"}
        /\ att.tokenReq \in {"persistent", "permanent"}) => att.recordCalls = 1

\* C11 - Record-save failure: when addFileRecord fails after a successful
\* transfer the invocation still ends as a success (the download link that
\* was shown stays, no upload failure is surfaced), the transfer was made
\* once, and no delete request is issued.
RecordFailureKeepsSuccess ==
  att.recordSaved = "failed" =>
    /\ att.outcome = "success" /\ att.pc = "done"
    /\ att.transfers = 1 /\ att.recordCalls = 1
    /\ att.deleteCalls = 0

\* a persistent upload succeeded and its record could not be saved
RecordFailureKeepsSuccessWitness ==
  /\ att.recordSaved = "failed" /\ att.outcome = "success"
  /\ att.tokenReq = "persistent" /\ att.pc = "done"

\* the steps one call may take: from where it stands to where it stands next.
\* beforeToken tells whether a call may end FAILED before it asks for a token.
ClientEdges(beforeToken) ==
  {<<"export", "export">>, <<"export", "token">>,
   <<"token", "TOKEN_REQUESTED">>,
   <<"TOKEN_REQUESTED", "TRANSFERRING">>, <<"TOKEN_REQUESTED", "FAILED">>,
   <<"TRANSFERRING", "TRANSFERRING">>,
   <<"TRANSFERRING", "COMPLETE">>, <<"TRANSFERRING", "FAILED">>}
  \cup (IF beforeToken THEN {<<"export", "FAILED">>} ELSE {})

\* a step of the client: either the caller starts a new call after the
\* previous one has returned (nothing requested or sent yet), or the running
\* call takes one of its edges; a transfer is under way only with a token
\* obtained from the call's single request
ClientStep(beforeToken) ==
  /\ \/ /\ xfer.pc \in {"idle", "COMPLETE", "FAILED"}
        /\ xfer'.tokenReqs = 0 /\ xfer'.sends = 0 /\ xfer'.token = 0
        /\ xfer'.pc \in {"export", "token"}
              \cup (IF beforeToken THEN {"FAILED"} ELSE {})
     \/ /\ xfer.pc \notin {"idle", "COMPLETE", "FAILED"}
        /\ <<xfer.pc, xfer'.pc>> \in ClientEdges(beforeToken)
        /\ xfer'.fn = xfer.fn
  /\ xfer'.pc = "TRANSFERRING" =>
       xfer'.token # 0 /\ xfer'.tokenReqs = 1 /\ xfer'.sends = 1
  /\ xfer'.pc = "FAILED" => xfer'.tokenReqs <= 1 /\ xfer'.sends <= 1
  /\ xfer'.pc = "COMPLETE" => xfer'.tokenReqs = 1 /\ xfer'.sends = 1

\* C12 (as amended) - Transfer-client state machine: a call asks for a token,
\* then transfers, then completes; it ends FAILED from the token request, from
\* the transfer, or before any token request (bundle export failure,
\* unsupported file type), in which case no token is requested; the transfer
\* starts only with a token obtained; COMPLETE and FAILED are left only by a
\* new call, never by a retry of the same call.
ClientStateMachine == [][ClientStep(TRUE)]_vars

\* C12 (as stated) - the same, with FAILED entered only from TOKEN_REQUESTED
\* or TRANSFERRING.
ClientStateMachineAsStated == [][ClientStep(FALSE)]_vars

\* C12 - a call of pushToRemote has ended FAILED without a token request
FailedBeforeTokenWitness ==
  /\ xfer.fn = "pushToRemote"
  /\ xfer.pc = "FAILED"
  /\ xfer.tokenReqs = 0
  /\ xfer.error = "No tables to export"

\* what holds of the token of a call, whether or not the call got that far
TokenDiscipline ==
  /\ xfer.tokenReqs <= 1
  /\ xfer.sends <= 1
  /\ xfer.pc \in {"TOKEN_REQUESTED", "TRANSFERRING", "COMPLETE"} =>
       xfer.tokenReqs = 1
  /\ xfer.tokenReqs = 0 => xfer.token = 0 /\ xfer.sends = 0
  /\ xfer.tokenReqs = 1 =>
       xfer.tokenArgs = [filename |-> xfer.filename,
                         content_length |-> xfer.bytes,
                         storage_tier |-> xfer.tier]
  /\ xfer.token # 0 => xfer.token = xfer.issued
  /\ xfer.sends = 1 =>
       /\ xfer.token # 0
       /\ xfer.sentToken = xfer.token
       /\ xfer.sentName = xfer.tokenArgs.filename
       /\ xfer.sentBytes = xfer.tokenArgs.content_length

\* C13 (as amended) - Token use: a call that reaches the token stage requests
\* exactly one token, with the filename, byte length and storage tier of the
\* artifact it then transfers; a call that fails before that stage requests
\* none.  The token is the one the server issued last (never one kept from an
\* earlier call), it is used for at most one transfer, and the bytes go to
\* the upload URL that came with it.
TokenUse == TokenDiscipline

\* C13 (as stated) - the same, and every call that has returned has requested
\* exactly one token.
TokenUseAsStated ==
  /\ TokenDiscipline
  /\ xfer.pc \in {"COMPLETE", "FAILED"} => xfer.tokenReqs = 1

\* C13 - the second call in a row has completed a persistent transfer with
\* the second token the server issued
TokenUseWitness ==
  /\ xfer.pc = "COMPLETE"
  /\ xfer.tier = "persistent"
  /\ xfer.issued = 2
  /\ xfer.sentToken = 2
  /\ xfer.tokenArgs.storage_tier = "persistent"

\* C14 - Progress is monotone: the percent values delivered to the caller's
\* callback within one call never decrease, and a call that returns success
\* has delivered 100 last and carries a download reference.
ProgressMonotone ==
  /\ xfer.monotone
  /\ xfer.pc = "COMPLETE" => xfer.percent = 100 /\ xfer.downloadUrl

\* the part of C14 that the client keeps: no delivered value is below the
\* one before it, and success ends at 100
ProgressNeverDecreases ==
  /\ xfer.monotone
  /\ xfer.pc = "COMPLETE" => xfer.percent = 100

\* C15 - Two outcomes: a call that has returned carries either success with a
\* download reference, or failure with a message.
TwoOutcomes ==
  xfer.pc \in {"COMPLETE", "FAILED"} =>
    \/ xfer.result = "success" /\ xfer.downloadUrl /\ xfer.error = "none"
    \/ xfer.result = "failure" /\ ~xfer.downloadUrl /\ xfer.error # "none"

\* C16 - Abort by the caller: once the caller has asked to abort the transfer
\* in progress, the call ends in failure with the cancelled reason.
AbortEndsCancelled ==
  (xfer.abortRequested /\ xfer.pc \in {"COMPLETE", "FAILED"}) =>
    xfer.result = "failure" /\ xfer.error = "Upload cancelled"

\* invocations of the publish handlers between their start and their end
InFlight == busy.pushRunning + busy.quickRunning + busy.parquetRunning

\* C17 - Single in-flight guard: at most one publish attempt, of whichever
\* workflow, is between its start and its terminal outcome at any time.
SingleInFlight == InFlight <= 1

\* the candidates whose count on the first line is the highest
Winners(line) ==
  LET n(c) == CountOf(c, line)
  IN {c \in {Pipe, Tab, Comma} : \A d \in {Pipe, Tab, Comma} : n(c) >= n(d)}

\* C18 - Delimiter inference: for a file whose delimiter is inferred from its
\* content, the result is the candidate among pipe, tab and comma with the
\* highest count on the first line, and comma when the highest count is
\* shared (which includes all three counts being zero).
DelimiterInference ==
  (sample.delimiter # "none" /\ sample.ext \in {"csv", "txt"}) =>
    LET winners == Winners(FirstLine(sample.text))
    IN IF Cardinality(winners) = 1
       THEN sample.delimiter \in winners
       ELSE sample.delimiter = Comma

\* the part of C18 that the code keeps: the result has the highest count, and
\* it is comma when no candidate occurs
DelimiterHasHighestCount ==
  (sample.delimiter # "none" /\ sample.ext \in {"csv", "txt"}) =>
    /\ sample.delimiter \in Winners(FirstLine(sample.text))
    /\ sample.text = <<Pipe, Pipe, Tab, Pipe>> => sample.delimiter = Pipe
    /\ sample.text = <<"a", "a", NewLine, Comma>> => sample.delimiter = Comma

\* C19 - Re-ingestion replaces: after a successful importCSV the table of that
\* name has the row count and the column set of the file just ingested,
\* whatever the table held before (no append, no column union); when the same
\* file was ingested under the same name just before, the table is what it
\* was after the first time; every other table is as it was.
ReingestReplaces ==
  (engine.last.op = "importCSV" /\ engine.last.result = "ok") =>
    /\ engine.db[engine.last.table] = engine.last.content
    /\ engine.last.again =>
         engine.db[engine.last.table] = engine.last.before[engine.last.table]
    /\ \A n \in TableNames \ {engine.last.table} :
         engine.db[n] = engine.last.before[n]

\* C19 - a file was ingested under the name of a table that held another
\* file's rows and columns, next to a second table
ReingestReplacesWitness ==
  /\ engine.last.op = "importCSV"
  /\ engine.last.result = "ok"
  /\ engine.last.table = <<"t", "_">>
  /\ engine.last.before[<<"t", "_">>] = [rows |-> 2, cols |-> {"a", "b"}]
  /\ engine.last.content = [rows |-> 1, cols |-> {"a"}]
  /\ engine.db[<<"u">>] # NoTable

\* C20 - Export preconditions: exportToParquet fails with 'No tables to
\* export' on an empty catalog and with 'Multiple tables ...' on more than one
\* table, and gets to the COPY of the engine only with exactly one table; the
\* bundle exports (exportToDuckDB, exportAsZipBundle) fail with 'No tables to
\* export' on an empty catalog and get to the engine with one table or more.
\* With its precondition met, an export returns bytes unless a query of the
\* engine itself fails.
ExportPreconditions ==
  LET n == Cardinality(getTables(engine.last.before))
      result == engine.last.result
  IN /\ engine.last.op = "exportToParquet" =>
          /\ n = 0 => result = "No tables to export"
          /\ n = 1 => result \in {"bytes", "engine error"}
          /\ n > 1 => result = "Multiple tables - use exportToDuckDB instead"
     /\ engine.last.op \in {"exportToDuckDB", "exportAsZipBundle"} =>
          /\ n = 0 => result = "No tables to export"
          /\ n >= 1 => result \in {"bytes", "engine error"}
     /\ engine.last.op \in {"exportToParquet", "exportToDuckDB",
                            "exportAsZipBundle"} =>
          engine.db = engine.last.before

\* C20 - exportToParquet was refused on a catalog of two tables
ExportPreconditionsWitness ==
  /\ engine.last.op = "exportToParquet"
  /\ Cardinality(getTables(engine.db)) = 2
  /\ engine.last.result = "Multiple tables - use exportToDuckDB instead"

\* the columnar files of the bundle
ParquetMembers == {m \in bundle.members : m.ext = "parquet"}

\* C21 - Manifest invariant: in a bundle that was produced, every manifest
\* entry names exactly one columnar file and that file is in the bundle, no
\* two entries are for the same table, every columnar file of the bundle is
\* the file of exactly one entry, the CREATE TABLE statements come in the
\* order of the manifest entries, and chunked is false.
ManifestInvariant ==
  bundle.pc = "done" =>
    LET entries == 1..Len(bundle.manifest)
    IN /\ \A k \in entries :
            /\ Len(bundle.manifest[k].files) = 1
            /\ bundle.manifest[k].files[1] \in ParquetMembers
            /\ bundle.manifest[k].files[1] = ParquetMember(bundle.manifest[k].name)
       /\ \A k, l \in entries :
            bundle.manifest[k].name = bundle.manifest[l].name => k = l
       /\ \A m \in ParquetMembers :
            Cardinality({k \in entries : bundle.manifest[k].files[1] = m}) = 1
       /\ bundle.schema = [k \in entries |-> bundle.manifest[k].name]
       /\ ~bundle.chunked

\* C21 - the exporter of the push has produced a bundle of three tables
ManifestInvariantWitness ==
  /\ bundle.pc = "done"
  /\ bundle.exporter = "exportAsZipBundle"
  /\ Len(bundle.manifest) = 3
  /\ Cardinality(ParquetMembers) = 3

\* C22 - Bundle members: a bundle that was produced by either exporter holds
\* manifest.json, schema.sql, README.md and one <table>.parquet per table,
\* and nothing else (so both exporters give the same members for the same
\* tables).
BundleMembers ==
  bundle.pc = "done" =>
    bundle.members =
      {ManifestMember, SchemaMember, ReadmeMember}
        \cup {ParquetMember(bundle.tables[k]) : k \in 1..Len(bundle.tables)}

\* the sum of the columnar export sizes of the tables of a list
RECURSIVE SumBytes(_)
SumBytes(tbls) ==
  IF tbls = <<>> THEN 0 ELSE ParquetBytes(Head(tbls)) + SumBytes(Tail(tbls))

\* an estimate has returned a size
EstimateReturned(s) ==
  s.job.kind = "estimateDatabaseSize" /\ s.job.pc = "done"

\* one step of the checks of C23
EstimateStep ==
  /\ (scratch'.job # scratch.job /\ scratch'.job.kind = "estimateDatabaseSize")
       => scratch'.catalog = scratch.catalog
  /\ (~EstimateReturned(scratch) /\ EstimateReturned(scratch')
        /\ scratch.job.prevSize >= 0
        /\ scratch.job.prevTables = scratch'.job.tables)
       => scratch'.job.totalSize = scratch.job.prevSize

\* C23 - Size estimation is non-mutating and repeatable: an estimate over no
\* tables returns 0; an estimate returns the sum of the columnar export sizes
\* of the tables it listed, so the same as the estimate before it when that
\* one listed the same tables; no step of an estimate changes the catalog.
EstimateRepeatable ==
  /\ [](EstimateReturned(scratch) =>
          /\ scratch.job.totalSize = SumBytes(scratch.job.tables)
          /\ scratch.job.tables = <<>> => scratch.job.totalSize = 0)
  /\ [][EstimateStep]_vars

\* C23 - a second estimate over the tables a and b is about to return the
\* size the first one returned
EstimateRepeatableWitness ==
  /\ scratch.job.kind = "estimateDatabaseSize"
  /\ scratch.job.pc = "loop"
  /\ scratch.job.tables = <<"a", "b">>
  /\ scratch.job.i = 2
  /\ scratch.job.prevTables = <<"a", "b">>
  /\ scratch.job.totalSize = scratch.job.prevSize
  /\ scratch.catalog = {"a", "b"}

\* the transient files a call has written to the virtual file system
TransientFiles ==
  {ConvertedFile}
    \cup {JobFile(kind, name) :
            kind \in {"estimateDatabaseSize", "exportAsZipBundle"},
            name \in {TempTable} \cup IngestNames}

\* C24 - Cleanup on every exit path: when no conversion, estimate or bundle
\* export is under way, the transient conversion table is not in the catalog
\* and no transient export file is in the virtual file system.
CleanupOnExit ==
  (scratch.conv = "idle" /\ scratch.job.pc \in {"idle", "done", "failed"}) =>
    /\ TempTable \notin scratch.catalog
    /\ scratch.files \cap TransientFiles = {}

\* C29 - The transient conversion table never leaks: the table list of an
\* estimate or a bundle export never holds the transient table, and no
\* estimate or export fails because a table it had listed is gone.
TempTableNeverListed ==
  /\ \A k \in 1..Len(scratch.job.tables) : scratch.job.tables[k] # TempTable
  /\ scratch.job.result # "table does not exist"

\* files.delete was called by the owner of the row and the metadata store
\* answered its requests
OwnerDeleted ==
  /\ records.last.op = "files.delete"
  /\ records.last.storeOk
  /\ records.last.before[records.last.id] # NoRecord
  /\ records.last.before[records.last.id].user_email = records.last.email

\* C25 - Soft delete is not blocked by the purge: after files.delete by the
\* owner (the metadata store answering), the row is marked deleted with flag
\* and timestamp whether the purge succeeded, failed or was skipped; it is
\* still a row of the table and nothing else of it changed; files.list and
\* files.count of the owner no longer include it.  No step removes a row.
SoftDeleteNotBlocked ==
  /\ [](OwnerDeleted =>
          LET id == records.last.id
              email == records.last.email
              was == records.last.before
          IN /\ records.last.status = 200
             /\ records.files[id] # NoRecord
             /\ records.files[id] = [was[id] EXCEPT !.is_deleted = "true",
                                                    !.deleted_at = "timestamp"]
             /\ id \notin FilesList(records.files, email)
             /\ FilesList(records.files, email) = FilesList(was, email) \ {id}
             /\ FilesCount(records.files, email) =
                  FilesCount(was, email)
                    - (IF NotDeleted(was[id]) THEN 1 ELSE 0))
  /\ [][\A i \in FileIds :
          records.files[i] # NoRecord => records'.files[i] # NoRecord]_vars

\* C25 - the owner deleted a record whose purge request threw, next to
\* another record of theirs that is still listed
SoftDeleteNotBlockedWitness ==
  /\ OwnerDeleted
  /\ records.last.purge = "throws"
  /\ records.files[records.last.id].is_deleted = "true"
  /\ FilesCount(records.files, records.last.email) = 1
  /\ FilesCount(records.last.before, records.last.email) = 2

\* the ceiling of a directly supplied file by its kind
DirectCeilingMb(kind) ==
  IF kind = "parquet" THEN ParquetCeilingMb ELSE MAX_UPLOAD_SIZE_MB

\* C26 - Direct-upload ceilings: no step taken while the role is not admin
\* stages a Quick Upload file above the ceiling of its kind (75 MB for a
\* .parquet file, 150 MB for a database file), whichever handler stages it,
\* and no Quick Upload invocation that runs with a role other than admin
\* requests a token or transfers such a file.
DirectUploadCeilings ==
  /\ []((att.wf = "quick" /\ att.role # "admin"
           /\ att.sizeMb > DirectCeilingMb(att.kind)) =>
          att.tokenReq = "none" /\ att.transfers = 0)
  /\ [][(userRole # "admin" /\ quickStagedFile' # quickStagedFile
           /\ quickStagedFile' # NoFile) =>
          quickStagedFile'.sizeMb <= DirectCeilingMb(quickStagedFile'.kind)]_vars

\* C28 - Role state follows the current identity: when no role lookup is in
\* progress, userRole is admin only for a signed-in, allowed identity whose
\* role is admin; a publish handler runs with role admin only for such an
\* identity; and isRoleLoading stays set while the lookup for the current
\* identity is pending.
RoleFollowsIdentity ==
  /\ (~isRoleLoading /\ userRole = "admin") =>
       user # NoUser /\ isAllowed /\ DbRole[user] = "admin"
  /\ (att.wf # "none" /\ att.role = "admin") =>
       att.email # NoUser /\ DbRole[att.email] = "admin"
  /\ (user # NoUser /\ isAllowed /\ user \in roleLookups) => isRoleLoading

\* C30 - Proxy request gating: a proxy sends a request to the backend only
\* when the method is the allowed one (POST for upload-token, GET for
\* status), the API key is configured and, for upload-token, a filename is
\* present; otherwise it answers 200 to OPTIONS, 405 to a wrong method, 500
\* to a missing key and 400 to a missing filename, with no backend request.
\* A successful token answer carries as full upload URL the base URL without
\* its trailing slash followed by the backend's upload_url, and a missing
\* tier was forwarded as temp.
ProxyGating ==
  LET allowed == IF proxy.fn = "upload-token" THEN "POST" ELSE "GET"
      named == proxy.fn = "status" \/ proxy.filename = "data.parquet"
      passes == proxy.method = allowed /\ proxy.keyed /\ named
  IN proxy.fn # "none" =>
       /\ proxy.backendCalls = (IF passes THEN 1 ELSE 0)
       /\ proxy.backendCalls = 1 => proxy.backendMethod = allowed
       /\ proxy.method = "OPTIONS" => proxy.status = 200
       /\ proxy.method \notin {"OPTIONS", allowed} => proxy.status = 405
       /\ (proxy.method = allowed /\ ~proxy.keyed) => proxy.status = 500
       /\ (proxy.method = allowed /\ proxy.keyed /\ ~named) => proxy.status = 400
       /\ (proxy.fn = "upload-token" /\ passes) =>
            /\ proxy.forwarded = (IF proxy.tier \in {"missing", ""}
                                  THEN "temp" ELSE proxy.tier)
            /\ proxy.backend = "ok" =>
                 /\ proxy.status = 200
                 /\ proxy.full_upload_url = <<"h", "/", "u">>

\* C30 - a token request without a tier, on a base URL configured with a
\* trailing slash, was forwarded and answered
ProxyGatingWitness ==
  /\ proxy.fn = "upload-token"
  /\ proxy.tier = "missing"
  /\ proxy.base = <<"h", "/">>
  /\ proxy.backendCalls = 1
  /\ proxy.backend = "ok"
  /\ proxy.forwarded = "temp"

\* C27 - Engine accessor initializes once: between two resets at most one
\* engine instance and at most one connection are created, whatever the
\* interleaving of the calls, and every caller that has its answer holds an
\* instance (or a connection to an instance) whose instantiation has
\* finished.
InitializesOnce ==
  /\ acc.created <= 1
  /\ acc.connected <= 1
  /\ \A c \in 1..MaxCallers :
       acc.callers[c].pc = "done" =>
         acc.callers[c].got # 0 /\ acc.callers[c].gotReady

====
